---- MODULE Spec2Model ----
(***************************************************************************)
(* Model of the SandTetrisGrid engine of src/src/lib/sand-tetris.ts:       *)
(* the grid of sand grains, the connected-component / elimination          *)
(* bookkeeping, the physics pass, the game-over latch and the tetromino    *)
(* spawn and drop operations.                                              *)
(***************************************************************************)
EXTENDS Integers, Sequences, FiniteSets, TLC

\* ---------------------------------------------------------------- constants
\* GRID_CONFIG
MIN_CELL_VALUE == 0
MAX_CELL_VALUE == 6
ELIMINATION_TICKS == 20
WHITE_COLOR == 6
BLINK_INTERVAL == 5
BASE_GRAIN_SPEED == 1
SPAWNING_GRAIN_SPEED == 5
TETROMINO_BLOCK_SIZE == 5

SAND_COLORS == <<1, 2, 3, 4, 5>>

TetrominoTypes == {"I", "O", "T", "L", "J", "S", "Z"}

TETROMINO_SHAPES(type) ==
  CASE type = "I" -> << <<1, 1, 1, 1>> >>
    [] type = "O" -> << <<1, 1>>, <<1, 1>> >>
    [] type = "T" -> << <<0, 1, 0>>, <<1, 1, 1>> >>
    [] type = "L" -> << <<1, 0>>, <<1, 0>>, <<1, 1>> >>
    [] type = "J" -> << <<0, 1>>, <<0, 1>>, <<1, 1>> >>
    [] type = "S" -> << <<0, 1, 1>>, <<1, 1, 0>> >>
    [] type = "Z" -> << <<1, 1, 0>>, <<0, 1, 1>> >>

\* a variant without the diagonals
DIRECTIONS_ORTHOGONAL == << <<-1, 0>>, <<1, 0>>, <<0, -1>>, <<0, 1>> >>

\* DIRECTIONS: four orthogonal, then four diagonal
DIRECTIONS ==
  << <<-1, 0>>, <<1, 0>>, <<0, -1>>, <<0, 1>>,
     <<-1, -1>>, <<1, -1>>, <<-1, 1>>, <<1, 1>> >>

\* ---------------------------------------------------------------- bounds
\* dimensions of the small grid edited cell by cell
GridW == 3
GridH == 2
\* number of setCell calls in one behaviour
MaxEdits == 3
\* dimensions of the grid on which tetrominoes are spawned
PieceW == 10
PieceH == 2
\* number of setCell calls in one behaviour of the tetromino specification
MaxPieceEdits == 2
\* number of accepted spawns in one behaviour
MaxSpawns == 1
\* dimensions of the grid edited with valid and invalid arguments
EditW == 2
EditH == 4
\* number of accepted writes in one behaviour of the editing specification
MaxWrites == 2
\* dimensions of the grid on which a piece is shifted
ShiftW == 11
ShiftH == 2
\* number of setCell calls in one behaviour of the shift specification
MaxShiftEdits == 2
\* dimensions of the grid on which a whole tetromino falls freely
FallW == 11
FallH == 13
\* number of setCell calls in one behaviour of the free-fall specification
MaxFallEdits == 1
\* number of operations called on each of an engine and its clone
MaxCloneOps == 2
\* dimensions of the grid that a falling T piece spans from wall to wall
BlinkW == 15
BlinkH == 11

\* cell values passed to setCell
EditValues == {0, 1, 2}
\* cell values passed to setCell in the tetromino specification
PieceEditValues == {0, 1, 2}
\* columns passed to setCell in the tetromino specification
PieceEditXs(w) == {1}
\* the widths of the small grid
Widths == 2 .. GridW
\* the values of Math.floor(Math.random() * SAND_COLORS.length), plus one
ColorDraws == {1}

\* the pieces drawn: one wider than the grid of PieceW columns, two that fit
PieceTypes == {"I", "O", "L"}
\* the piece drawn in the free-fall specification: the one that fits whole
FallTypes == {"O"}
\* arguments of setCell in the editing specification: positions inside the
\* grid and outside each side of it, values inside and outside 0..6
EditPositions(w, h) == {<<0, 0>>, <<w - 1, h - 1>>, <<-1, 0>>, <<0, h>>, <<w, h - 1>>}
EditAnyValues == {-1, 0, 1, 2, 7}
\* arguments of fillRect: <<startX, startY, width, height>> of rectangles inside
\* the grid, partly outside, wholly outside and of non-positive size
FillRects(w, h) ==
  {<<0, 0, w, 1>>, <<-1, -1, 2, 2>>, <<w - 1, h - 1, 3, 3>>,
   <<w, 0, 1, 1>>, <<0, 0, 0, h>>, <<1, 0, -1, 1>>, <<0, 1, 1, h - 1>>,
   <<0, h - 2, w, 1>>}
FillValues == {0, 1, 7}
\* the piece drawn, and the cells and values passed to setCell, in the shift
\* specification: the columns next to the piece
ShiftTypes == {"O"}
ShiftEditXs(w) == {0, w - 1}
ShiftEditValues == {0, 2}
\* the directions passed to shiftActiveTetromino
ShiftDirections == {"left", "right"}
\* the start X drawn in the free-fall specification
FallStartXs == {0}
\* the operations called on an engine and on its clone, and those of them the
\* game loop replays on both; the arguments of the spawn and of the setCell
CloneOps == {"step", "softDrop", "instantDrop", "startTetrominoSpawn", "setCell", "clear"}
ReplayOps == {"step", "softDrop", "instantDrop"}
CloneSpawn == <<"O", 1, 0>>
CloneEdit == <<1, 0, 2>>
\* the piece drawn on the grid it spans: three blocks wide
BlinkTypes == {"T"}
\* the cells and the value passed to setCell in the free-fall specification:
\* a column under the piece, on the floor and in the topmost row
FallEditXs == {5}
FallEditYs(h) == {0, h - 1}
FallEditValues == {2}

\* ---------------------------------------------------------------- state
VARIABLES
  width, height,            \* readonly dimensions of the engine
  grid,                     \* grid[y][x]: a grain record or Null
  connectedComponents,      \* sequence of components, in Map insertion order
  hasActiveEliminations,
  isGameOver,
  fallingPieceCells,        \* the Set of position keys, in insertion order
  canSpawnNewPiece,
  lastOp,                   \* name of the last operation called
  arg,                      \* its arguments
  ret,                      \* its return value
  stepInfo,                 \* what the last step() did (history)
  tracked,                  \* components a step() scheduled, while only step() follows
  edits,                    \* setCell calls so far
  spawns,                   \* accepted spawns so far
  twin                      \* the engine returned by clone(), and the calls since

engine == <<grid, connectedComponents, hasActiveEliminations, isGameOver,
            fallingPieceCells, canSpawnNewPiece>>
vars == <<width, height, grid, connectedComponents, hasActiveEliminations,
          isGameOver, fallingPieceCells, canSpawnNewPiece, lastOp, arg, ret,
          stepInfo, tracked, edits, spawns, twin>>

\* ---------------------------------------------------------------- grid store
Null == [color |-> 0, speed |-> 0, ticks |-> 0]

Xs(w) == 0 .. (w - 1)
Ys(h) == 0 .. (h - 1)

createEmptyGrid(w, h) == [y \in Ys(h) |-> [x \in Xs(w) |-> Null]]

createGrain(color, isSpawning) ==
  LET speed == IF isSpawning THEN SPAWNING_GRAIN_SPEED ELSE BASE_GRAIN_SPEED
  IN  [color |-> color, speed |-> speed, ticks |-> speed]

isValidPosition(x, y) == x >= 0 /\ x < width /\ y >= 0 /\ y < height

isValidCellValue(value) ==
  value \in Int /\ value >= MIN_CELL_VALUE /\ value <= MAX_CELL_VALUE

\* the key "x,y" of a position, and its parse
positionToKey(x, y) == <<x, y>>
keyToPosition(key) == [x |-> key[1], y |-> key[2]]

getCellOf(g, x, y) == IF ~isValidPosition(x, y) THEN 0 ELSE g[y][x].color
getCell(x, y) == getCellOf(grid, x, y)

countCellsOf(g, value) ==
  Cardinality({p \in Xs(width) \X Ys(height) : g[p[2]][p[1]] # Null /\ g[p[2]][p[1]].color = value})

\* the elements of a Set kept in insertion order
Range(s) == {s[i] : i \in DOMAIN s}

Occupied(g) == {p \in Xs(width) \X Ys(height) : g[p[2]][p[1]] # Null}

\* "e", with the value v of the loop state computed first: a loop is unrolled as
\* a recursion that carries its state, and the state of one round is computed
\* before the next round starts
Do(v, e) == IF v = v THEN e ELSE e

\* ---------------------------------------------------------------- DisjointSetUnion
\* parent and rank are Maps; keys is the insertion order of parent's keys
NewDsu == [parent |-> <<>>, rank |-> <<>>, keys |-> <<>>]

\* "Path compression": pos points at the root found for its parent
Compress(r, pos) == [dsu |-> [r.dsu EXCEPT !.parent[pos] = r.root], root |-> r.root]

RECURSIVE DsuFind(_, _)
DsuFind(d, pos) ==
  IF pos \notin DOMAIN d.parent
  THEN [dsu |-> [parent |-> d.parent @@ (pos :> pos),
                 rank |-> d.rank @@ (pos :> 0),
                 keys |-> Append(d.keys, pos)],
        root |-> pos]
  ELSE IF d.parent[pos] # pos
       THEN Compress(DsuFind(d, d.parent[pos]), pos)
       ELSE [dsu |-> d, root |-> pos]

\* "Union by rank" of the two roots found
Link(d2, root1, root2) ==
  IF root1 = root2 THEN d2
  ELSE IF d2.rank[root1] < d2.rank[root2] THEN [d2 EXCEPT !.parent[root1] = root2]
  ELSE IF d2.rank[root1] > d2.rank[root2] THEN [d2 EXCEPT !.parent[root2] = root1]
  ELSE [d2 EXCEPT !.parent[root2] = root1, !.rank[root1] = d2.rank[root1] + 1]

\* "const root2 = this.find(pos2)", after root1 has been found
FindSecond(f1, pos2) == Link(DsuFind(f1.dsu, pos2).dsu, f1.root, DsuFind(f1.dsu, pos2).root)

DsuUnion(d, pos1, pos2) == FindSecond(DsuFind(d, pos1), pos2)

\* the Map root -> Set of cells, as the sequence of its values in insertion order:
\* a root enters the Map at the first key of parent that it is the root of (the
\* path compression of the find calls of this loop moves no root)
getComponentCells(d) ==
  LET rootOf == [i \in 1 .. Len(d.keys) |-> DsuFind(d, d.keys[i]).root]
      firsts == SelectSeq([i \in 1 .. Len(d.keys) |-> i],
                          LAMBDA i : \A j \in 1 .. (i - 1) : rootOf[j] # rootOf[i])
  IN  [k \in 1 .. Len(firsts) |->
        {d.keys[i] : i \in {j \in 1 .. Len(d.keys) : rootOf[j] = rootOf[firsts[k]]}}]

\* ---------------------------------------------------------------- component tracker
NewComponent(id, cells, color, left, right) ==
  [id |-> id, cells |-> cells, originalColor |-> color,
   touchesLeftWall |-> left, touchesRightWall |-> right,
   eliminationCountdown |-> -1]

getOriginalColor(comps, x, y, currentValue) ==
  IF currentValue = 0 THEN 0
  ELSE LET cellKey == positionToKey(x, y)
           holders == {i \in 1 .. Len(comps) : cellKey \in comps[i].cells}
       IN  IF holders # {}
           THEN comps[CHOOSE i \in holders : \A j \in holders : i <= j].originalColor
           ELSE IF currentValue = WHITE_COLOR THEN 1 ELSE currentValue

\* colorMap of findConnectedComponents, for every position
ColorMap(g, comps) ==
  [y \in Ys(height) |-> [x \in Xs(width) |-> getOriginalColor(comps, x, y, g[y][x].color)]]

\* the union of the cell (x, y) with its neighbour in direction dir, when it applies
UnionNeighbour(d, g, cm, x, y, dir) ==
  LET nx == x + dir[1]
      ny == y + dir[2]
  IN  IF isValidPosition(nx, ny) /\ g[ny][nx] # Null /\ cm[ny][nx] = cm[y][x]
      THEN DsuUnion(d, positionToKey(x, y), positionToKey(nx, ny))
      ELSE d

\* the unions of the cell (x, y) with its neighbours in DIRECTIONS[j .. 8]
RECURSIVE UnionNeighbours(_, _, _, _, _, _)
UnionNeighbours(d, g, cm, x, y, j) ==
  Do(d, IF j > Len(DIRECTIONS) THEN d
        ELSE UnionNeighbours(UnionNeighbour(d, g, cm, x, y, DIRECTIONS[j]),
                             g, cm, x, y, j + 1))

\* "for (let x = 0; x < this.width; x++)" of the first pass, from x on
RECURSIVE UnionRow(_, _, _, _, _)
UnionRow(d, g, cm, x, y) ==
  Do(d, IF x >= width THEN d
        ELSE UnionRow(IF g[y][x] = Null THEN d ELSE UnionNeighbours(d, g, cm, x, y, 1),
                      g, cm, x + 1, y))

\* "for (let y = 0; y < this.height; y++)" of the first pass, from y on
RECURSIVE UnionPass(_, _, _, _)
UnionPass(d, g, cm, y) ==
  Do(d, IF y >= height THEN d
        ELSE UnionPass(UnionRow(d, g, cm, 0, y), g, cm, y + 1))

\* the colour colorMap holds for the cells of one root
ColorOf(cm, cellKey) == cm[cellKey[2]][cellKey[1]]

\* "Build components": the component of the k-th root
ComponentOf(k, cells, cm) ==
  NewComponent(k, cells, ColorOf(cm, CHOOSE c \in cells : TRUE),
               \E c \in cells : keyToPosition(c).x = 0,
               \E c \in cells : keyToPosition(c).x = width - 1)

BuildComponents(rootComponents, cm) ==
  [k \in 1 .. Len(rootComponents) |-> ComponentOf(k, rootComponents[k], cm)]

\* findConnectedComponents once colorMap is known
FindWith(g, cm) == BuildComponents(getComponentCells(UnionPass(NewDsu, g, cm, 0)), cm)

findConnectedComponents(g, comps) == FindWith(g, ColorMap(g, comps))

\* ---------------------------------------------------------------- elimination controller
\* a variant whose phase is one tick late
BlinkColorLate(countdown, originalColor) ==
  LET ticksPassed == ELIMINATION_TICKS - countdown - 1
      shouldBlink == (ticksPassed \div BLINK_INTERVAL) % 2 = 1
  IN  IF shouldBlink THEN WHITE_COLOR ELSE originalColor

\* the colour written into the member cells on a tick, from the countdown before it
BlinkColor(countdown, originalColor) ==
  LET ticksPassed == ELIMINATION_TICKS - countdown
      shouldBlink == (ticksPassed \div BLINK_INTERVAL) % 2 = 1
  IN  IF shouldBlink THEN WHITE_COLOR ELSE originalColor

getComponentDisplayColor(component) ==
  IF component.eliminationCountdown >= 0
  THEN BlinkColor(component.eliminationCountdown, component.originalColor)
  ELSE component.originalColor

\* "Update cell colors": the display colour into every member cell that holds a grain
PaintCells(g, cells, displayColor) ==
  [y \in Ys(height) |-> [x \in Xs(width) |->
     IF positionToKey(x, y) \in cells /\ g[y][x] # Null
     THEN [g[y][x] EXCEPT !.color = displayColor]
     ELSE g[y][x]]]

\* "Eliminate component": every member cell inside the grid becomes null
ClearCells(g, cells) ==
  [y \in Ys(height) |-> [x \in Xs(width) |->
     IF positionToKey(x, y) \in cells THEN Null ELSE g[y][x]]]

\* the countdown after one tick
TickCountdown(countdown) == countdown - 1

\* a variant whose loop handles the first counting component only
CountdownComponentFirstOnly(acc, component) ==
  IF component.eliminationCountdown < 0 \/ acc.blinking
  THEN [acc EXCEPT !.comps = Append(@, component)]
  ELSE IF TickCountdown(component.eliminationCountdown) < 0
       THEN [grid |-> ClearCells(acc.grid, component.cells), comps |-> acc.comps,
             eliminated |-> TRUE, blinking |-> TRUE]
       ELSE [grid |-> PaintCells(acc.grid, component.cells,
                                 BlinkColor(component.eliminationCountdown,
                                            component.originalColor)),
             comps |-> Append(acc.comps,
                              [component EXCEPT !.eliminationCountdown =
                                 TickCountdown(component.eliminationCountdown)]),
             eliminated |-> acc.eliminated, blinking |-> TRUE]

\* one round of the loop of processEliminationCountdowns, for one component
CountdownComponent(acc, component) ==
  IF component.eliminationCountdown < 0
  THEN [acc EXCEPT !.comps = Append(@, component)]
  ELSE LET displayColor == BlinkColor(component.eliminationCountdown,
                                      component.originalColor)
           painted == PaintCells(acc.grid, component.cells, displayColor)
           countdown == TickCountdown(component.eliminationCountdown)
       IN  IF countdown < 0
           THEN [grid |-> ClearCells(painted, component.cells), comps |-> acc.comps,
                 eliminated |-> TRUE, blinking |-> TRUE]
           ELSE [grid |-> painted,
                 comps |-> Append(acc.comps,
                                  [component EXCEPT !.eliminationCountdown = countdown]),
                 eliminated |-> acc.eliminated, blinking |-> TRUE]

\* the loop of processEliminationCountdowns over comps[i .. ]
RECURSIVE CountdownLoop(_, _, _)
CountdownLoop(acc, comps, i) ==
  Do(acc, IF i > Len(comps) THEN acc
          ELSE CountdownLoop(CountdownComponent(acc, comps[i]), comps, i + 1))

\* result: grid, comps, eliminated, blinking; hasActiveEliminations := blinking
processEliminationCountdowns(g, comps) ==
  CountdownLoop([grid |-> g, comps |-> <<>>, eliminated |-> FALSE, blinking |-> FALSE],
                comps, 1)

\* a variant that schedules a component as soon as it touches the left wall
ScheduleAtLeftWall(component) ==
  IF component.touchesLeftWall
  THEN [component EXCEPT !.eliminationCountdown = ELIMINATION_TICKS - 1]
  ELSE component

\* a variant that starts the countdown one tick higher
ScheduleFull(component) ==
  IF component.touchesLeftWall /\ component.touchesRightWall
  THEN [component EXCEPT !.eliminationCountdown = ELIMINATION_TICKS]
  ELSE component

\* "Check for new wall-touching components"
Schedule(component) ==
  IF component.touchesLeftWall /\ component.touchesRightWall
  THEN [component EXCEPT !.eliminationCountdown = ELIMINATION_TICKS - 1]
  ELSE component

ScheduleAll(newComponents) ==
  [k \in 1 .. Len(newComponents) |-> Schedule(newComponents[k])]

\* a variant that always reports an active elimination
ActiveAlways(result, newComponents) == TRUE

\* hasActiveEliminations after the rebuild: set by the countdowns, or by a schedule
ActiveAfter(result, newComponents) ==
  result.blinking
  \/ \E k \in 1 .. Len(newComponents) : newComponents[k].eliminationCountdown >= 0

\* "this.connectedComponents = newComponents"
Rebuilt(result, newComponents) ==
  [grid |-> result.grid, comps |-> newComponents,
   hasActive |-> ActiveAfter(result, newComponents),
   eliminated |-> result.eliminated,
   blinking |-> ActiveAfter(result, newComponents),
   rebuilt |-> TRUE]

\* a variant that skips the rebuild whenever a countdown was running
UpdateAfterWithoutRebuild(result) ==
  IF result.blinking
  THEN [grid |-> result.grid, comps |-> result.comps, hasActive |-> result.blinking,
        eliminated |-> result.eliminated, blinking |-> result.blinking,
        rebuilt |-> FALSE]
  ELSE Rebuilt(result, ScheduleAll(findConnectedComponents(result.grid, result.comps)))

\* updateConnectedComponents after its call of processEliminationCountdowns
UpdateAfter(result) ==
  IF result.blinking /\ ~result.eliminated
  THEN [grid |-> result.grid, comps |-> result.comps, hasActive |-> result.blinking,
        eliminated |-> result.eliminated, blinking |-> result.blinking,
        rebuilt |-> FALSE]
  ELSE Rebuilt(result, ScheduleAll(findConnectedComponents(result.grid, result.comps)))

\* result: grid, comps, hasActive, eliminated, blinking, rebuilt
updateConnectedComponents(g, comps) ==
  UpdateAfter(processEliminationCountdowns(g, comps))

\* ---------------------------------------------------------------- physics stepper
\* a variant that does not look at what nextGrid already holds
CanPlaceOver(nextGrid, px, py) ==
  py >= 0 /\ px >= 0 /\ px < width

\* a candidate of "Try falling positions" is taken when it is in bounds and free in nextGrid
CanPlace(nextGrid, px, py) ==
  py >= 0 /\ px >= 0 /\ px < width /\ nextGrid[py][px] = Null

\* a variant that tries down-left before straight down
FallPositionsLeftFirst(x, y) == << <<x - 1, y - 1>>, <<x, y - 1>>, <<x + 1, y - 1>> >>

\* the positions tried, in order: straight down, down-left, down-right
FallPositions(x, y) == << <<x, y - 1>>, <<x - 1, y - 1>>, <<x + 1, y - 1>> >>

\* a variant that takes the last candidate that can be taken
FallTargetLast(nextGrid, x, y) ==
  LET positions == FallPositions(x, y)
      ok == {k \in 1 .. Len(positions) : CanPlace(nextGrid, positions[k][1], positions[k][2])}
  IN  IF ok = {} THEN <<x, y>>
      ELSE positions[CHOOSE k \in ok : \A j \in ok : k >= j]

\* the first candidate that can be taken, or <<x, y>> when there is none
FallTarget(nextGrid, x, y) ==
  LET positions == FallPositions(x, y)
      ok == {k \in 1 .. Len(positions) : CanPlace(nextGrid, positions[k][1], positions[k][2])}
  IN  IF ok = {} THEN <<x, y>>
      ELSE positions[CHOOSE k \in ok : \A j \in ok : k <= j]

\* "Check if touching non-spawning grains"
ShouldTransitionSpeed(g, falling, x, y) ==
  /\ g[y][x].speed = SPAWNING_GRAIN_SPEED
  /\ positionToKey(x, y) \in falling
  /\ \E j \in 1 .. Len(DIRECTIONS) :
       LET nx == x + DIRECTIONS[j][1]
           ny == y + DIRECTIONS[j][2]
       IN  /\ isValidPosition(nx, ny)
           /\ g[ny][nx] # Null
           /\ g[ny][nx].speed = BASE_GRAIN_SPEED
           /\ positionToKey(nx, ny) \notin falling

\* a variant that never finds a grain due
IsStuckAtTopNever(y, ticks) == y = height - 1 /\ ticks < 0 /\ ticks > 0

\* a top-row grain that was due to move and stayed
IsStuckAtTop(y, ticks) == y = height - 1 /\ ticks <= 0

\* the body of the physics loop for the grain at (x, y)
PhysicsCell(acc, g, falling, x, y) ==
  LET grain == g[y][x]
      isFalling == positionToKey(x, y) \in falling
      ticks == grain.ticks - 1
      aged == [grain EXCEPT !.ticks = ticks]
      newGrain0 == IF ShouldTransitionSpeed(g, falling, x, y)
                   THEN [aged EXCEPT !.speed = BASE_GRAIN_SPEED, !.ticks = BASE_GRAIN_SPEED]
                   ELSE aged
      due == ticks <= 0
      newGrain == IF due THEN [newGrain0 EXCEPT !.ticks = newGrain0.speed] ELSE newGrain0
      target == IF due THEN FallTarget(acc.nextGrid, x, y) ELSE <<x, y>>
      placed == target # <<x, y>>
  IN  [nextGrid |-> [acc.nextGrid EXCEPT ![target[2]][target[1]] = newGrain],
       newFallingPieceCells |->
         IF isFalling
         THEN Append(acc.newFallingPieceCells, positionToKey(target[1], target[2]))
         ELSE acc.newFallingPieceCells,
       stuckBlocksAtTop |->
         IF ~placed /\ IsStuckAtTop(y, ticks)
         THEN acc.stuckBlocksAtTop \cup {positionToKey(x, y)}
         ELSE acc.stuckBlocksAtTop,
       anyMovement |-> acc.anyMovement \/ placed,
       \* history: where the grain went, and which candidates nextGrid had free for it
       log |-> acc.log \cup
               {[from |-> <<x, y>>, to |-> target, due |-> due,
                 free |-> [k \in 1 .. 3 |->
                            CanPlace(acc.nextGrid, FallPositions(x, y)[k][1],
                                     FallPositions(x, y)[k][2])]]}]

\* "for (let x = 0; x < this.width; x++)" of the physics loop, from x on
RECURSIVE PhysicsRow(_, _, _, _, _)
PhysicsRow(acc, g, falling, x, y) ==
  Do(acc, IF x >= width THEN acc
          ELSE PhysicsRow(IF g[y][x] = Null THEN acc ELSE PhysicsCell(acc, g, falling, x, y),
                          g, falling, x + 1, y))

\* "for (let y = 0; y < this.height; y++)" of the physics loop, from y on
RECURSIVE PhysicsLoop(_, _, _, _)
PhysicsLoop(acc, g, falling, y) ==
  Do(acc, IF y >= height THEN acc
          ELSE PhysicsLoop(PhysicsRow(acc, g, falling, 0, y), g, falling, y + 1))

\* falling: the elements of fallingPieceCells
simulatePhysics(g, falling) ==
  PhysicsLoop([nextGrid |-> createEmptyGrid(width, height),
               newFallingPieceCells |-> <<>>,
               stuckBlocksAtTop |-> {},
               anyMovement |-> FALSE,
               log |-> {}],
              g, falling, 0)

\* ---------------------------------------------------------------- settle detection
\* a variant in which the piece's own cells count as placed material
checkCollisionWithAnyCell(g, falling, x, y, direction) ==
  LET checkX == IF direction = "left" THEN x - 1 ELSE IF direction = "right" THEN x + 1 ELSE x
      checkY == IF direction = "bottom" THEN y - 1 ELSE y
  IN  IF direction = "bottom" /\ checkY < 0 THEN TRUE
      ELSE isValidPosition(checkX, checkY) /\ g[checkY][checkX] # Null

checkCollisionWithPlacedPieces(g, falling, x, y, direction) ==
  LET checkX == IF direction = "left" THEN x - 1 ELSE IF direction = "right" THEN x + 1 ELSE x
      checkY == IF direction = "bottom" THEN y - 1 ELSE y
  IN  IF direction = "bottom" /\ checkY < 0 THEN TRUE
      ELSE IF isValidPosition(checkX, checkY)
                /\ g[checkY][checkX] # Null
                /\ g[checkY][checkX].color >= 1 /\ g[checkY][checkX].color <= 6
           THEN positionToKey(checkX, checkY) \notin falling
           ELSE FALSE

checkFallingPieceCollisions(g, falling) ==
  \E cellKey \in falling :
    LET pos == keyToPosition(cellKey)
    IN  \/ checkCollisionWithPlacedPieces(g, falling, pos.x, pos.y, "left")
        \/ checkCollisionWithPlacedPieces(g, falling, pos.x, pos.y, "right")
        \/ checkCollisionWithPlacedPieces(g, falling, pos.x, pos.y, "bottom")

transitionSpawningGrainsToBaseSpeed(g) ==
  [y \in Ys(height) |-> [x \in Xs(width) |->
     IF g[y][x] # Null /\ g[y][x].speed = SPAWNING_GRAIN_SPEED
     THEN [g[y][x] EXCEPT !.speed = BASE_GRAIN_SPEED,
                          !.ticks = IF @ > BASE_GRAIN_SPEED THEN BASE_GRAIN_SPEED ELSE @]
     ELSE g[y][x]]]

\* ---------------------------------------------------------------- step
\* the engine's fields as one record
Engine(g, comps, active, over, falling, canSpawn) ==
  [grid |-> g, connectedComponents |-> comps, hasActiveEliminations |-> active,
   isGameOver |-> over, fallingPieceCells |-> falling, canSpawnNewPiece |-> canSpawn]

Current == Engine(grid, connectedComponents, hasActiveEliminations, isGameOver,
                  fallingPieceCells, canSpawnNewPiece)

\* "Check collision for falling pieces": the piece settles
SettleCheck(e) ==
  IF ~e.canSpawnNewPiece /\ Len(e.fallingPieceCells) > 0
     /\ checkFallingPieceCollisions(e.grid, Range(e.fallingPieceCells))
  THEN [e EXCEPT !.grid = transitionSpawningGrainsToBaseSpeed(e.grid),
                 !.canSpawnNewPiece = TRUE,
                 !.fallingPieceCells = <<>>]
  ELSE e

\* a variant that never ends the game
GameOverNever(stuckBlocksAtTop) == FALSE

\* "Check game over - only if blocks are stuck at the top"
GameOverCheck(stuckBlocksAtTop) == stuckBlocksAtTop # {}

\* a variant whose return value ignores the movement of the physics pass
PhysicsResultIgnoringMovement(eliminated, phys, settled, over) ==
  [e |-> IF over THEN [settled EXCEPT !.isGameOver = TRUE] ELSE settled,
   ret |-> IF over THEN TRUE ELSE eliminated,
   physics |-> TRUE,
   anyMovement |-> phys.anyMovement,
   stuck |-> phys.stuckBlocksAtTop,
   falling |-> Range(phys.newFallingPieceCells),
   log |-> phys.log]

\* what step() leaves and returns after the physics pass phys
PhysicsResult(eliminated, phys, settled, over) ==
  [e |-> IF over THEN [settled EXCEPT !.isGameOver = TRUE] ELSE settled,
   ret |-> IF over THEN TRUE ELSE (eliminated \/ phys.anyMovement),
   physics |-> TRUE,
   anyMovement |-> phys.anyMovement,
   stuck |-> phys.stuckBlocksAtTop,
   falling |-> Range(phys.newFallingPieceCells),
   log |-> phys.log]

\* "this.fallingPieceCells = newFallingPieceCells; this.grid = newGrid", and after
AfterPhysics(e, eliminated, phys) ==
  PhysicsResult(eliminated, phys,
                SettleCheck([e EXCEPT !.fallingPieceCells = phys.newFallingPieceCells,
                                      !.grid = phys.nextGrid]),
                GameOverCheck(phys.stuckBlocksAtTop))

\* the part of step() after the elimination update, when nothing blinks
PhysicsPart(e, eliminated) ==
  AfterPhysics(e, eliminated, simulatePhysics(e.grid, Range(e.fallingPieceCells)))

\* a variant that lets every step through
GateOpen(e) == FALSE

\* "if (this.isGameOver) return false": the step does nothing
Gate(e) == e.isGameOver

\* a variant that goes on to physics while a countdown runs
TimeStopsNever(blinking) == FALSE

\* "if (blinking) return true": time stops
TimeStops(blinking) == blinking

\* step() after the elimination update u has been written to the engine
StepUpdated(updated, u) ==
  IF TimeStops(u.blinking)
  THEN [e |-> updated, ret |-> TRUE, physics |-> FALSE, anyMovement |-> FALSE,
        stuck |-> {}, falling |-> {}, log |-> {},
        rebuilt |-> u.rebuilt, eliminated |-> u.eliminated, gated |-> FALSE]
  ELSE PhysicsPart(updated, u.eliminated)
         @@ [rebuilt |-> u.rebuilt, eliminated |-> u.eliminated, gated |-> FALSE]

\* step() after its call of updateConnectedComponents
StepUpdate(e, u) ==
  StepUpdated([e EXCEPT !.grid = u.grid, !.connectedComponents = u.comps,
                        !.hasActiveEliminations = u.hasActive],
              u)

\* step() on the engine e: the engine after it, its return value, and what it did
StepOf(e) ==
  IF Gate(e)
  THEN [e |-> e, ret |-> FALSE, physics |-> FALSE, anyMovement |-> FALSE, stuck |-> {},
        falling |-> {}, log |-> {}, rebuilt |-> FALSE, eliminated |-> FALSE, gated |-> TRUE]
  ELSE StepUpdate(e, updateConnectedComponents(e.grid, e.connectedComponents))

\* ---------------------------------------------------------------- grid editing
\* a variant that validates the position only
setCellUnchecked(e, x, y, value) ==
  IF ~isValidPosition(x, y)
  THEN [e |-> e, ret |-> FALSE]
  ELSE [e |-> [e EXCEPT !.grid[y][x] =
                 IF value = 0 THEN Null ELSE createGrain(value, FALSE)],
        ret |-> TRUE]

\* setCell: the engine after it and its return value
setCellOf(e, x, y, value) ==
  IF ~isValidPosition(x, y) \/ ~isValidCellValue(value)
  THEN [e |-> e, ret |-> FALSE]
  ELSE [e |-> [e EXCEPT !.grid[y][x] =
                 IF value = 0 THEN Null ELSE createGrain(value, FALSE)],
        ret |-> TRUE]

\* a variant that takes the right end from the clipped start
FillEndFromClipped(start, size, limit) ==
  IF (IF start < 0 THEN 0 ELSE start) + size < limit
  THEN (IF start < 0 THEN 0 ELSE start) + size ELSE limit

\* "Math.min(startX + width, this.width)"
FillEnd(start, size, limit) == IF start + size < limit THEN start + size ELSE limit

\* "Math.max(0, startX)"
FillStart(start) == IF start < 0 THEN 0 ELSE start

\* fillRect: the engine after it
fillRectOf(e, startX, startY, w, h, value) ==
  IF ~isValidCellValue(value) THEN e
  ELSE [e EXCEPT !.grid =
         [y \in Ys(height) |-> [x \in Xs(width) |->
            IF /\ y >= FillStart(startY) /\ y < FillEnd(startY, h, height)
               /\ x >= FillStart(startX) /\ x < FillEnd(startX, w, width)
            THEN (IF value = 0 THEN Null ELSE createGrain(value, FALSE))
            ELSE e.grid[y][x]]]]

\* a variant that leaves the spawn permission as it was
clearKeepingSpawnState(e) ==
  Engine(createEmptyGrid(width, height), <<>>, FALSE, FALSE, <<>>, e.canSpawnNewPiece)

clearOf(e) ==
  Engine(createEmptyGrid(width, height), <<>>, FALSE, FALSE, <<>>, TRUE)

resetGameOverOf(e) == [e EXCEPT !.isGameOver = FALSE]

\* ---------------------------------------------------------------- piece spawner
ShapeWidth(type) == Len(TETROMINO_SHAPES(type)[1]) * TETROMINO_BLOCK_SIZE
ShapeHeight(type) == Len(TETROMINO_SHAPES(type)) * TETROMINO_BLOCK_SIZE

\* the positions of the 5x5 blocks of the shape, in the order of the four loops
\* (shapeRow, shapeCol, blockY, blockX), for the cells of the shape that are 1
BlockPositions(type, startX) ==
  LET shape == TETROMINO_SHAPES(type)
      rows == Len(shape)
      cols == Len(shape[1])
      B == TETROMINO_BLOCK_SIZE
      baseSpawnY == height
      all == [n \in 1 .. (rows * cols * B * B) |->
               LET m == n - 1
                   blockX == m % B
                   blockY == (m \div B) % B
                   shapeCol == (m \div (B * B)) % cols
                   shapeRow == m \div (B * B * cols)
               IN  [x |-> startX + shapeCol * B + blockX,
                    y |-> baseSpawnY - rows * B + shapeRow * B + blockY,
                    on |-> shape[shapeRow + 1][shapeCol + 1] = 1]]
  IN  SelectSeq(all, LAMBDA c : c.on)

\* a variant that writes one sand-row only, at the topmost row of the grid
SpawnWritesTopRow(type, startX) ==
  LET top == SelectSeq(BlockPositions(type, startX),
                       LAMBDA c : isValidPosition(c.x, c.y) /\ c.y = height - 1)
  IN  [k \in 1 .. Len(top) |-> positionToKey(top[k].x, top[k].y)]

\* a variant that keeps the blocks outside the grid
SpawnWritesAll(type, startX) ==
  LET all == BlockPositions(type, startX)
  IN  [k \in 1 .. Len(all) |-> positionToKey(all[k].x, all[k].y)]

\* "Only place blocks that are within the grid": the keys written and tagged
SpawnWrites(type, startX) ==
  LET inside == SelectSeq(BlockPositions(type, startX),
                          LAMBDA c : isValidPosition(c.x, c.y))
  IN  [k \in 1 .. Len(inside) |-> positionToKey(inside[k].x, inside[k].y)]

\* the largest start X of a shape, negative when the shape is wider than the grid
MaxStartX(type) == width - ShapeWidth(type)

\* startTetrominoSpawn with the random colour and the random start X drawn
startTetrominoSpawnOf(e, type, color, startX) ==
  IF ~e.canSpawnNewPiece THEN [e |-> e, ret |-> FALSE]
  ELSE IF MaxStartX(type) < 0 THEN [e |-> e, ret |-> FALSE]
  ELSE LET writes == SpawnWrites(type, startX)
           written == Range(writes)
       IN  [e |-> [e EXCEPT
                     !.grid = [y \in Ys(height) |-> [x \in Xs(width) |->
                                 IF positionToKey(x, y) \in written
                                 THEN createGrain(color, TRUE)
                                 ELSE e.grid[y][x]]],
                     !.fallingPieceCells = writes,
                     !.canSpawnNewPiece = FALSE],
            ret |-> TRUE]

isSpawningTetromino == Len(fallingPieceCells) > 0 /\ ~canSpawnNewPiece

\* ---------------------------------------------------------------- drops
\* the falling cells that hold a grain, with the grain's colour, in Set order
CollectPieces(g, falling) ==
  LET held == SelectSeq(falling, LAMBDA k : g[keyToPosition(k).y][keyToPosition(k).x] # Null)
  IN  [i \in 1 .. Len(held) |->
        [x |-> keyToPosition(held[i]).x, y |-> keyToPosition(held[i]).y,
         color |-> g[keyToPosition(held[i]).y][keyToPosition(held[i]).x].color]]

\* "Initialize column heights based on existing obstacles"
ColumnHeight(g, x) ==
  LET ys == {y \in Ys(height) : g[y][x] # Null}
  IN  IF ys = {} THEN -1 ELSE CHOOSE y \in ys : \A z \in ys : z <= y

\* the targetY of pieces[i] in "Place each falling piece on top of its column":
\* a column's height grows by one with each piece placed in it, and once a
\* targetY of the column is not below the grid's height none is placed any more
TargetY(heights, pieces, i) ==
  heights[pieces[i].x] + 1
    + Cardinality({j \in 1 .. (i - 1) : pieces[j].x = pieces[i].x})

\* "Place each falling piece on top of its column"
StackPieces(g, heights, pieces) ==
  LET placed == {i \in 1 .. Len(pieces) : TargetY(heights, pieces, i) < height}
      at(x, y) == {i \in placed : pieces[i].x = x /\ TargetY(heights, pieces, i) = y}
  IN  [y \in Ys(height) |-> [x \in Xs(width) |->
        IF at(x, y) # {}
        THEN createGrain(pieces[CHOOSE i \in at(x, y) : TRUE].color, FALSE)
        ELSE g[y][x]]]

\* the part of instantDrop() after its forced step()
InstantDropPart(e) ==
  IF Len(e.fallingPieceCells) > 0
  THEN LET fallingPieces == CollectPieces(e.grid, e.fallingPieceCells)
           lifted == ClearCells(e.grid, Range(e.fallingPieceCells))
           xs == {fallingPieces[i].x : i \in 1 .. Len(fallingPieces)}
           minX == IF xs = {} THEN width ELSE CHOOSE x \in xs : \A z \in xs : x <= z
           maxX == IF xs = {} THEN -1 ELSE CHOOSE x \in xs : \A z \in xs : z <= x
           columnHeights == [x \in minX .. maxX |-> ColumnHeight(lifted, x)]
       IN  [e |-> [e EXCEPT !.grid = StackPieces(lifted, columnHeights, fallingPieces),
                            !.fallingPieceCells = <<>>,
                            !.canSpawnNewPiece = TRUE],
            ret |-> TRUE]
  ELSE [e |-> e, ret |-> FALSE]

instantDropOf(e) == InstantDropPart(StepOf(e).e)

\* "Check if we can move all pieces down by 1"
CanMoveDown(g, falling, pieces) ==
  \A i \in 1 .. Len(pieces) :
    LET newY == pieces[i].y - 1
    IN  ~(newY < 0 \/ (g[newY][pieces[i].x] # Null
                        /\ positionToKey(pieces[i].x, newY) \notin falling))

\* "Move pieces down": every piece is written one row lower
MovePieces(g, pieces) ==
  LET moved == {<<pieces[i].x, pieces[i].y - 1>> : i \in 1 .. Len(pieces)}
      colorAt(x, y) ==
        LET is == {i \in 1 .. Len(pieces) : pieces[i].x = x /\ pieces[i].y - 1 = y}
        IN  pieces[CHOOSE i \in is : \A j \in is : j <= i].color
  IN  [y \in Ys(height) |-> [x \in Xs(width) |->
        IF <<x, y>> \in moved THEN createGrain(colorAt(x, y), FALSE) ELSE g[y][x]]]

\* the part of softDrop() after its forced step()
SoftDropPart(e) ==
  IF Len(e.fallingPieceCells) > 0
  THEN LET piecesToMove == CollectPieces(e.grid, e.fallingPieceCells)
           falling == Range(e.fallingPieceCells)
       IN  IF CanMoveDown(e.grid, falling, piecesToMove)
           THEN [e |-> [e EXCEPT
                          !.grid = MovePieces(ClearCells(e.grid, falling), piecesToMove),
                          !.fallingPieceCells =
                            [i \in 1 .. Len(piecesToMove) |->
                               positionToKey(piecesToMove[i].x, piecesToMove[i].y - 1)]],
                 ret |-> TRUE]
           ELSE [e |-> [e EXCEPT !.canSpawnNewPiece = TRUE, !.fallingPieceCells = <<>>],
                 ret |-> FALSE]
  ELSE [e |-> e, ret |-> FALSE]

softDropOf(e) == SoftDropPart(StepOf(e).e)

\* ---------------------------------------------------------------- horizontal shift
\* the column offset of a direction
ShiftDx(direction) == IF direction = "left" THEN -1 ELSE 1

\* a variant in which nothing blocks a target cell inside the grid
ShiftBlockedByWallOnly(g, falling, dx) ==
  \E k \in falling : ~isValidPosition(keyToPosition(k).x + dx, keyToPosition(k).y)

\* some target cell is outside the grid or holds material that is not the piece's
ShiftBlocked(g, falling, dx) ==
  \E k \in falling :
    LET tx == keyToPosition(k).x + dx
        ty == keyToPosition(k).y
    IN  \/ ~isValidPosition(tx, ty)
        \/ (g[ty][tx] # Null /\ positionToKey(tx, ty) \notin falling)

\* every falling-piece cell written one column further
ShiftCells(g, falling, dx) ==
  [y \in Ys(height) |-> [x \in Xs(width) |->
     IF isValidPosition(x - dx, y) /\ positionToKey(x - dx, y) \in falling
     THEN g[y][x - dx]
     ELSE IF positionToKey(x, y) \in falling THEN Null ELSE g[y][x]]]

\* shiftActiveTetromino(direction): the engine after it and its return value
shiftActiveTetrominoOf(e, direction) ==
  IF Len(e.fallingPieceCells) = 0
     \/ ShiftBlocked(e.grid, Range(e.fallingPieceCells), ShiftDx(direction))
  THEN [e |-> e, ret |-> FALSE]
  ELSE [e |-> [e EXCEPT
                 !.grid = ShiftCells(e.grid, Range(e.fallingPieceCells), ShiftDx(direction)),
                 !.fallingPieceCells =
                   [i \in 1 .. Len(e.fallingPieceCells) |->
                      positionToKey(keyToPosition(e.fallingPieceCells[i]).x + ShiftDx(direction),
                                    keyToPosition(e.fallingPieceCells[i]).y)]],
        ret |-> TRUE]

\* ---------------------------------------------------------------- clone
\* "{ ...grain }": a new object with the fields of the grain
SpreadGrain(grain) ==
  [color |-> grain.color, speed |-> grain.speed, ticks |-> grain.ticks]

\* "copy.grid[y] = this.grid[y].map(grain => grain ? { ...grain } : null)"
CopyRow(row) == [x \in DOMAIN row |-> IF row[x] # Null THEN SpreadGrain(row[x]) ELSE Null]

\* "new Set(...)" of a Set kept in insertion order: the same elements, same order
NewSet(s) == [i \in 1 .. Len(s) |-> s[i]]

\* "{ ...comp, cells: new Set(comp.cells) }"
CopyComponent(comp) ==
  [id |-> comp.id, cells |-> {c : c \in comp.cells}, originalColor |-> comp.originalColor,
   touchesLeftWall |-> comp.touchesLeftWall, touchesRightWall |-> comp.touchesRightWall,
   eliminationCountdown |-> comp.eliminationCountdown]

\* a variant that hands its own Set of falling-piece cells to the copy
cloneSharingFallingSet(e) ==
  [e |-> Engine([y \in DOMAIN e.grid |-> CopyRow(e.grid[y])],
                [k \in 1 .. Len(e.connectedComponents) |->
                   CopyComponent(e.connectedComponents[k])],
                e.hasActiveEliminations, e.isGameOver,
                e.fallingPieceCells, e.canSpawnNewPiece),
   shared |-> {"fallingPieceCells"}]

\* clone(): the new engine, and the collections it holds as the same object as
\* the original (none: the rows, the grains, the Set and the components are new)
cloneOf(e) ==
  [e |-> Engine([y \in DOMAIN e.grid |-> CopyRow(e.grid[y])],
                [k \in 1 .. Len(e.connectedComponents) |->
                   CopyComponent(e.connectedComponents[k])],
                e.hasActiveEliminations, e.isGameOver,
                NewSet(e.fallingPieceCells), e.canSpawnNewPiece),
   shared |-> {}]

\* no clone has been made
NoTwin == [made |-> FALSE, e |-> <<>>, shared |-> {}, opsOriginal |-> <<>>, opsCopy |-> <<>>]

\* the call of the operation op on the engine e: the engine after it, its return
\* value, and "fresh": the engine has replaced its Set of falling-piece cells
\* by a new one ("this.fallingPieceCells = newFallingPieceCells", in the physics
\* part of step() and in a softDrop() that moves) instead of changing it in
\* place (clear, add)
Call(op, e) ==
  CASE op = "step" ->
         [e |-> StepOf(e).e, ret |-> StepOf(e).ret, fresh |-> StepOf(e).physics]
    [] op = "softDrop" ->
         [e |-> softDropOf(e).e, ret |-> softDropOf(e).ret,
          fresh |-> StepOf(e).physics \/ softDropOf(e).ret]
    [] op = "instantDrop" ->
         [e |-> instantDropOf(e).e, ret |-> instantDropOf(e).ret,
          fresh |-> StepOf(e).physics]
    [] op = "startTetrominoSpawn" ->
         [e |-> startTetrominoSpawnOf(e, CloneSpawn[1], SAND_COLORS[CloneSpawn[2]],
                                      CloneSpawn[3]).e,
          ret |-> startTetrominoSpawnOf(e, CloneSpawn[1], SAND_COLORS[CloneSpawn[2]],
                                        CloneSpawn[3]).ret,
          fresh |-> FALSE]
    [] op = "setCell" ->
         [e |-> setCellOf(e, CloneEdit[1], CloneEdit[2], CloneEdit[3]).e,
          ret |-> setCellOf(e, CloneEdit[1], CloneEdit[2], CloneEdit[3]).ret,
          fresh |-> FALSE]
    [] op = "clear" -> [e |-> clearOf(e), ret |-> TRUE, fresh |-> FALSE]

\* the other engine after the call c: a Set it holds as the same object shows
\* the changes made in place
Follow(other, c, shared) ==
  IF "fallingPieceCells" \in shared /\ ~c.fresh
  THEN [other EXCEPT !.fallingPieceCells = c.e.fallingPieceCells]
  ELSE other

\* ---------------------------------------------------------------- history
Blinking(comps) == \E i \in 1 .. Len(comps) : comps[i].eliminationCountdown >= 0

BlinkingCells(comps) ==
  UNION {comps[i].cells : i \in {j \in 1 .. Len(comps) : comps[j].eliminationCountdown >= 0}}

TopRowFull(g) == \A x \in Xs(width) : g[height - 1][x] # Null

NoStep ==
  [called |-> FALSE, gated |-> FALSE, physics |-> FALSE, rebuilt |-> FALSE,
   eliminated |-> FALSE, anyMovement |-> FALSE, stuck |-> FALSE, blinkingAtStart |-> FALSE,
   topFullAtStart |-> FALSE, falling |-> {}, log |-> {}]

\* what a step() on the engine e did, r being its result
InfoOf(e, r) ==
  [called |-> TRUE, gated |-> r.gated, physics |-> r.physics, rebuilt |-> r.rebuilt,
   eliminated |-> r.eliminated, anyMovement |-> r.anyMovement, stuck |-> r.stuck # {},
   blinkingAtStart |-> Blinking(e.connectedComponents),
   topFullAtStart |-> TopRowFull(e.grid), falling |-> r.falling, log |-> r.log]

\* the components a step() has scheduled, each with the number k of step() calls since
TrackedAfter(r) ==
  LET comps == r.e.connectedComponents
  IN  {[t EXCEPT !.k = @ + 1] : t \in {u \in tracked : u.k < ELIMINATION_TICKS}}
      \cup (IF r.rebuilt
            THEN {[cells |-> comps[i].cells, color |-> comps[i].originalColor, k |-> 0] :
                    i \in {j \in 1 .. Len(comps) : comps[j].eliminationCountdown >= 0}}
            ELSE {})

\* ---------------------------------------------------------------- operations
Assign(e) ==
  /\ grid' = e.grid
  /\ connectedComponents' = e.connectedComponents
  /\ hasActiveEliminations' = e.hasActiveEliminations
  /\ isGameOver' = e.isGameOver
  /\ fallingPieceCells' = e.fallingPieceCells
  /\ canSpawnNewPiece' = e.canSpawnNewPiece

Step ==
  \E r \in {StepOf(Current)} :
      /\ Assign(r.e)
      /\ lastOp' = "step"
      /\ arg' = <<>>
      /\ ret' = r.ret
      /\ stepInfo' = InfoOf(Current, r)
      /\ tracked' = TrackedAfter(r)
      /\ UNCHANGED <<twin, width, height, edits, spawns>>

SetCell(x, y, value) ==
  \E r \in {setCellOf(Current, x, y, value)} :
      /\ Assign(r.e)
      /\ lastOp' = "setCell"
      /\ arg' = <<x, y, value>>
      /\ ret' = r.ret
      /\ stepInfo' = NoStep
      /\ tracked' = {}
      /\ edits' = IF r.ret THEN edits + 1 ELSE edits
      /\ UNCHANGED <<twin, width, height, spawns>>

FillRect(startX, startY, w, h, value) ==
  /\ Assign(fillRectOf(Current, startX, startY, w, h, value))
  /\ lastOp' = "fillRect"
  /\ arg' = <<startX, startY, w, h, value>>
  /\ ret' = TRUE
  /\ stepInfo' = NoStep
  /\ tracked' = {}
  /\ edits' = IF isValidCellValue(value) THEN edits + 1 ELSE edits
  /\ UNCHANGED <<twin, width, height, spawns>>

Clear ==
  /\ Assign(clearOf(Current))
  /\ lastOp' = "clear"
  /\ arg' = <<>>
  /\ ret' = TRUE
  /\ stepInfo' = NoStep
  /\ tracked' = {}
  /\ UNCHANGED <<twin, width, height, edits, spawns>>

ResetGameOver ==
  /\ Assign(resetGameOverOf(Current))
  /\ lastOp' = "resetGameOver"
  /\ arg' = <<>>
  /\ ret' = TRUE
  /\ stepInfo' = NoStep
  /\ tracked' = {}
  /\ UNCHANGED <<twin, width, height, edits, spawns>>

StartTetrominoSpawn(type, color, startX) ==
  \E r \in {startTetrominoSpawnOf(Current, type, color, startX)} :
      /\ Assign(r.e)
      /\ lastOp' = "startTetrominoSpawn"
      /\ arg' = <<type>>
      /\ (r.ret => spawns < MaxSpawns)
      /\ ret' = r.ret
      /\ stepInfo' = NoStep
      /\ tracked' = IF r.ret THEN {} ELSE tracked
      /\ spawns' = IF r.ret THEN spawns + 1 ELSE spawns
      /\ UNCHANGED <<twin, width, height, edits>>

SoftDrop ==
  \E s \in {StepOf(Current)} : \E r \in {SoftDropPart(s.e)} :
      /\ Assign(r.e)
      /\ lastOp' = "softDrop"
      /\ arg' = <<>>
      /\ ret' = r.ret
      /\ stepInfo' = InfoOf(Current, s)
      /\ tracked' = {}
      /\ UNCHANGED <<twin, width, height, edits, spawns>>

InstantDrop ==
  \E s \in {StepOf(Current)} : \E r \in {InstantDropPart(s.e)} :
      /\ Assign(r.e)
      /\ lastOp' = "instantDrop"
      /\ arg' = <<>>
      /\ ret' = r.ret
      /\ stepInfo' = InfoOf(Current, s)
      /\ tracked' = {}
      /\ UNCHANGED <<twin, width, height, edits, spawns>>

ShiftActiveTetromino(direction) ==
  \E r \in {shiftActiveTetrominoOf(Current, direction)} :
      /\ Assign(r.e)
      /\ lastOp' = "shiftActiveTetromino"
      /\ arg' = <<direction>>
      /\ ret' = r.ret
      /\ stepInfo' = NoStep
      /\ tracked' = {}
      /\ UNCHANGED <<twin, width, height, edits, spawns>>

\* the random start X: Math.floor(Math.random() * (maxStartX + 1))
StartXs(type) == 0 .. (IF MaxStartX(type) < 0 THEN 0 ELSE MaxStartX(type))

\* "setGrid(gridRef.current.clone())"
Clone ==
  /\ ~twin.made
  /\ \E c \in {cloneOf(Current)} :
       twin' = [made |-> TRUE, e |-> c.e, shared |-> c.shared,
                opsOriginal |-> <<>>, opsCopy |-> <<>>]
  /\ lastOp' = "clone"
  /\ arg' = <<>>
  /\ ret' = TRUE
  /\ stepInfo' = NoStep
  /\ tracked' = {}
  /\ UNCHANGED <<width, height, edits, spawns>>
  /\ UNCHANGED engine

\* the operation op called on the engine that was cloned
OnOriginal(op) ==
  /\ twin.made
  /\ Len(twin.opsOriginal) < MaxCloneOps
  /\ \E c \in {Call(op, Current)} :
       /\ Assign(c.e)
       /\ ret' = c.ret
       /\ twin' = [twin EXCEPT !.e = Follow(twin.e, c, twin.shared),
                               !.shared = IF c.fresh THEN {} ELSE @,
                               !.opsOriginal = Append(@, op)]
  /\ lastOp' = op
  /\ arg' = <<"original">>
  /\ stepInfo' = NoStep
  /\ tracked' = {}
  /\ UNCHANGED <<width, height, edits, spawns>>

\* the operation op called on the clone
OnCopy(op) ==
  /\ twin.made
  /\ Len(twin.opsCopy) < MaxCloneOps
  /\ \E c \in {Call(op, twin.e)} :
       /\ Assign(Follow(Current, c, twin.shared))
       /\ ret' = c.ret
       /\ twin' = [twin EXCEPT !.e = c.e,
                               !.shared = IF c.fresh THEN {} ELSE @,
                               !.opsCopy = Append(@, op)]
  /\ lastOp' = op
  /\ arg' = <<"copy">>
  /\ stepInfo' = NoStep
  /\ tracked' = {}
  /\ UNCHANGED <<width, height, edits, spawns>>

\* ---------------------------------------------------------------- specifications
InitEngine(w, h) ==
  /\ width = w
  /\ height = h
  /\ grid = createEmptyGrid(w, h)
  /\ connectedComponents = <<>>
  /\ hasActiveEliminations = FALSE
  /\ isGameOver = FALSE
  /\ fallingPieceCells = <<>>
  /\ canSpawnNewPiece = TRUE
  /\ lastOp = "new"
  /\ arg = <<>>
  /\ ret = TRUE
  /\ stepInfo = NoStep
  /\ tracked = {}
  /\ edits = 0
  /\ spawns = 0
  /\ twin = NoTwin

\* the small grid, edited cell by cell
Init == \E w \in Widths : InitEngine(w, GridH)

Next ==
  \/ Step
  \/ \E x \in Xs(width), y \in Ys(height), value \in EditValues :
       edits < MaxEdits /\ SetCell(x, y, value)
  \/ ResetGameOver
  \/ Clear

Spec == Init /\ [][Next]_vars

\* the grid on which tetrominoes are spawned and dropped
InitPiece == InitEngine(PieceW, PieceH)

NextPiece ==
  \/ Step
  \/ \E type \in PieceTypes, k \in ColorDraws :
       \E startX \in StartXs(type) :
         StartTetrominoSpawn(type, SAND_COLORS[k], startX)
  \/ SoftDrop
  \/ InstantDrop
  \/ \E x \in PieceEditXs(width), y \in Ys(height), value \in PieceEditValues :
       edits < MaxPieceEdits /\ SetCell(x, y, value)
  \/ ResetGameOver
  \/ Clear

SpecPiece == InitPiece /\ [][NextPiece]_vars

\* the small grid edited with setCell and fillRect, arguments valid or not
InitEdit == InitEngine(EditW, EditH)

NextEdit ==
  \/ Step
  \/ \E p \in EditPositions(width, height), value \in EditAnyValues :
       edits < MaxWrites /\ SetCell(p[1], p[2], value)
  \/ \E r \in FillRects(width, height), value \in FillValues :
       edits < MaxWrites /\ FillRect(r[1], r[2], r[3], r[4], value)
  \/ Clear

SpecEdit == InitEdit /\ [][NextEdit]_vars

\* the grid one column wider than the piece, on which the piece is shifted
InitShift == InitEngine(ShiftW, ShiftH)

NextShift ==
  \/ Step
  \/ \E type \in ShiftTypes, k \in ColorDraws :
       \E startX \in StartXs(type) :
         StartTetrominoSpawn(type, SAND_COLORS[k], startX)
  \/ \E direction \in ShiftDirections : ShiftActiveTetromino(direction)
  \/ \E x \in ShiftEditXs(width), y \in Ys(height), value \in ShiftEditValues :
       edits < MaxShiftEdits /\ SetCell(x, y, value)

SpecShift == InitShift /\ [][NextShift]_vars

\* the grid tall enough for a whole piece to be spawned above the floor
InitFall == InitEngine(FallW, FallH)

NextFall ==
  \/ Step
  \/ \E type \in FallTypes, k \in ColorDraws :
       \E startX \in StartXs(type) \cap FallStartXs :
         StartTetrominoSpawn(type, SAND_COLORS[k], startX)
  \/ SoftDrop
  \/ InstantDrop
  \/ \E x \in FallEditXs, y \in FallEditYs(height), value \in FallEditValues :
       edits < MaxFallEdits /\ SetCell(x, y, value)
  \/ ResetGameOver
  \/ Clear

SpecFall == InitFall /\ [][NextFall]_vars

\* the grid as wide as the T piece and one row taller: the piece touches both
\* walls while it is still falling; only the game's own operations are called
InitBlink == InitEngine(BlinkW, BlinkH)

NextBlink ==
  \/ Step
  \/ \E type \in BlinkTypes, k \in ColorDraws :
       \E startX \in StartXs(type) :
         StartTetrominoSpawn(type, SAND_COLORS[k], startX)
  \/ SoftDrop
  \/ InstantDrop

SpecBlink == InitBlink /\ [][NextBlink]_vars

\* the 10x2 grid with one piece; at some point the engine is cloned, and from
\* then on operations are called on the original and on the clone
InitClone == InitEngine(PieceW, PieceH)

NextClone ==
  \/ ~twin.made /\ Step
  \/ ~twin.made /\ \E type \in FallTypes, k \in ColorDraws :
       \E startX \in StartXs(type) :
         StartTetrominoSpawn(type, SAND_COLORS[k], startX)
  \/ ~twin.made /\ SoftDrop
  \/ ~twin.made /\ InstantDrop
  \/ Clone
  \/ \E op \in CloneOps : OnOriginal(op)
  \/ \E op \in CloneOps : OnCopy(op)

SpecClone == InitClone /\ [][NextClone]_vars


\* ---------------------------------------------------------------- properties
\* the cells of one row, wall to wall
RowStrip(y) == {<<x, y>> : x \in Xs(width)}

CellsOccupied(cells) == \A c \in cells : grid[c[2]][c[1]] # Null
CellsEmpty(cells) == \A c \in cells : grid[c[2]][c[1]] = Null

\* C1: a component that a step() schedules for elimination keeps all its member
\* cells occupied after each of the next 19 step() calls, when only step() is
\* called; after the 20th they are all empty and no component of
\* getConnectedComponents() holds them.
C1_EliminatedOnTwentiethStep ==
  \A t \in tracked :
    /\ t.k <= ELIMINATION_TICKS
    /\ t.k < ELIMINATION_TICKS => CellsOccupied(t.cells)
    /\ t.k = ELIMINATION_TICKS =>
         /\ CellsEmpty(t.cells)
         /\ \A i \in 1 .. Len(connectedComponents) :
              connectedComponents[i].cells \cap t.cells = {}

\* a one-row strip from wall to wall has just been eliminated, 20 steps after scheduling
C1_Witness ==
  \E t \in tracked :
    /\ t.k = ELIMINATION_TICKS
    /\ \E y \in Ys(height) : t.cells = RowStrip(y)
    /\ lastOp = "step"
    /\ stepInfo.eliminated

\* C2: a step() at whose start some component has eliminationCountdown >= 0 runs
\* no physics, settle detection, game-over detection or spawning: isTimeStopped()
\* is true after it, every cell outside the blinking components keeps its grain
\* where it is, and the falling-piece set, the spawn permission and the game-over
\* flag are unchanged.
C2_TimeStopsWhileBlinking ==
  [][(lastOp' = "step" /\ Blinking(connectedComponents)) =>
       /\ hasActiveEliminations'
       /\ \A p \in (Xs(width) \X Ys(height)) \ BlinkingCells(connectedComponents) :
            grid'[p[2]][p[1]] = grid[p[2]][p[1]]
       /\ fallingPieceCells' = fallingPieceCells
       /\ canSpawnNewPiece' = canSpawnNewPiece
       /\ isGameOver' = isGameOver]_vars

\* a step() has run during a countdown, with a piece in the falling set and a grain
\* outside the blinking component
C2_Witness ==
  /\ lastOp = "step"
  /\ stepInfo.blinkingAtStart
  /\ ~stepInfo.physics
  /\ Len(fallingPieceCells) > 0
  /\ Occupied(grid) \ BlinkingCells(connectedComponents) # {}

\* C3: on the k-th step() after the scheduling step, k = 1..19, every member cell
\* of the scheduled component holds white (6) for k = 5..9 and k = 15..19, and the
\* component's original color for k = 1..4 and k = 10..14.
C3_BlinkPattern ==
  \A t \in tracked :
    t.k \in 1 .. (ELIMINATION_TICKS - 1) =>
      \A c \in t.cells :
        grid[c[2]][c[1]].color =
          IF t.k \in (5 .. 9) \cup (15 .. 19) THEN 6 ELSE t.color

\* the 15th step() after scheduling has painted a component white for the second time
C3_Witness ==
  \E t \in tracked :
    /\ t.k = 15
    /\ t.color # 6
    /\ \A c \in t.cells : grid[c[2]][c[1]].color = 6

\* C4: a step() that runs physics only leaves the number of non-empty cells
\* unchanged, and the number of cells of each color 1-5.
C4_MassConservation ==
  [][(lastOp' = "step" /\ stepInfo'.physics) =>
       /\ Cardinality(Occupied(grid')) = Cardinality(Occupied(grid))
       /\ \A c \in 1 .. 5 : countCellsOf(grid', c) = countCellsOf(grid, c)]_vars

\* a physics step has moved grains on a grid that holds two colors
C4_Witness ==
  /\ lastOp = "step"
  /\ stepInfo.physics
  /\ stepInfo.anyMovement
  /\ countCellsOf(grid, 1) > 0
  /\ countCellsOf(grid, 2) > 0

\* the only occupied cell is (x, y), and it holds a grain of color c as setCell writes it
OnlyCell(g, x, y, c) ==
  /\ Occupied(g) = {<<x, y>>}
  /\ g[y][x] = createGrain(c, FALSE)

\* C5 as stated: for every color c in 1..5 and every (x, y) with y > 0, on a grid
\* whose only occupied cell is a cell of color c written at (x, y) by setCell, one
\* step() leaves color c at (x, y-1) and every other cell empty.
C5_SingleCellFalls ==
  [][\A c \in 1 .. 5, x \in Xs(width), y \in 1 .. (height - 1) :
       (OnlyCell(grid, x, y, c) /\ lastOp' = "step") =>
         /\ getCellOf(grid', x, y - 1) = c
         /\ Occupied(grid') = {<<x, y - 1>>}]_vars

\* C5, amended: the same, on an engine whose game-over flag is false and in which
\* no component has a countdown running.
C5_SingleCellFallsWhenRunning ==
  [][\A c \in 1 .. 5, x \in Xs(width), y \in 1 .. (height - 1) :
       (/\ OnlyCell(grid, x, y, c)
        /\ ~isGameOver
        /\ ~Blinking(connectedComponents)
        /\ lastOp' = "step") =>
         /\ getCellOf(grid', x, y - 1) = c
         /\ Occupied(grid') = {<<x, y - 1>>}]_vars

\* the one cell ever written has fallen by one row in a step()
C5_Witness ==
  /\ lastOp = "step"
  /\ stepInfo.physics
  /\ stepInfo.anyMovement
  /\ edits = 1
  /\ \E x \in Xs(width) : Occupied(grid) = {<<x, height - 2>>}


\* where the fallback of C6 sends a grain, given which candidates nextGrid has free
FallbackOf(m) ==
  IF m.free[2] THEN <<m.from[1] - 1, m.from[2] - 1>>
  ELSE IF m.free[3] THEN <<m.from[1] + 1, m.from[2] - 1>>
  ELSE m.from

\* the grains of the last physics pass whose straight-down target was taken in nextGrid
Blocked == {m \in stepInfo.log : m.from[2] > 0 /\ ~m.free[1]}

\* C6 as stated: in a physics step, a cell at (x, y) whose straight-down target
\* (x, y-1) is taken in the next grid moves to down-left (x-1, y-1) if that is in
\* bounds and free in the next grid, otherwise to down-right (x+1, y-1) if in
\* bounds and free, otherwise stays at (x, y).
C6_DiagonalFallback ==
  \A m \in Blocked : m.to = FallbackOf(m)

\* C6, amended: the same for a cell whose grain is due to move in this pass, its
\* tick counter having run out; a grain that is not due stays at (x, y).
C6_DiagonalFallbackWhenDue ==
  \A m \in Blocked : m.to = (IF m.due THEN FallbackOf(m) ELSE m.from)

\* a grain that was due, with its straight-down target taken and both diagonals
\* free in nextGrid, has gone down-left
C6_Witness ==
  /\ lastOp = "step"
  /\ \E m \in Blocked :
       m.due /\ m.free[2] /\ m.free[3] /\ m.to = <<m.from[1] - 1, m.from[2] - 1>>

\* some grain of the top row was due to move in the pass and is still in the top
\* row after it
StuckAtTop == \E m \in stepInfo.log : m.from[2] = height - 1 /\ m.due /\ m.to = m.from

\* C7 as stated: on a grid whose entire top row is filled with sand, calling
\* step() makes the game-over flag true.
C7_FullTopRowEndsGame ==
  [][(TopRowFull(grid) /\ lastOp' = "step") => isGameOver']_vars

\* C7, amended: on a grid whose entire top row is filled with sand, a step() that
\* runs physics and leaves a top-row grain that was due to move where it was makes
\* the game-over flag true; every later step() is a no-op until resetGameOver()
\* or clear() is called.
C7_StuckTopRowEndsGame ==
  [][/\ (lastOp' = "step" /\ stepInfo'.physics /\ stepInfo'.topFullAtStart /\ StuckAtTop') =>
          isGameOver'
     /\ (isGameOver /\ lastOp' = "step") => (engine' = engine /\ ret' = FALSE)
     /\ (isGameOver /\ ~isGameOver') => lastOp' \in {"resetGameOver", "clear"}]_vars

\* a step() on a full top row has found a grain stuck there and ended the game
C7_Witness ==
  /\ lastOp = "step"
  /\ stepInfo.physics
  /\ stepInfo.topFullAtStart
  /\ StuckAtTop
  /\ isGameOver

\* C8: once the game-over flag is true, every step() returns false and leaves the
\* grid, the components, the falling-piece set and all flags unchanged; the flag
\* becomes false again only through resetGameOver() or clear(), never through
\* step(), startTetrominoSpawn, softDrop or instantDrop.
C8_GameOverLatch ==
  [][isGameOver =>
       /\ lastOp' = "step" =>
            /\ ret' = FALSE
            /\ grid' = grid
            /\ connectedComponents' = connectedComponents
            /\ fallingPieceCells' = fallingPieceCells
            /\ hasActiveEliminations' = hasActiveEliminations
            /\ canSpawnNewPiece' = canSpawnNewPiece
            /\ isGameOver'
       /\ lastOp' \in {"step", "startTetrominoSpawn", "softDrop", "instantDrop", "setCell"} =>
            isGameOver'
       /\ lastOp' \in {"resetGameOver", "clear"} => ~isGameOver']_vars

\* a step() has been refused on a game that is over and holds sand
C8_Witness ==
  /\ isGameOver
  /\ lastOp = "step"
  /\ stepInfo.gated
  /\ ret = FALSE
  /\ Occupied(grid) # {}

\* C9 as stated: after every step() that runs a physics pass, if any cell of the
\* top row is still occupied after the pass, the game-over flag is true.
C9_TopRowOccupiedEndsGame ==
  (lastOp = "step" /\ stepInfo.physics /\ \E x \in Xs(width) : grid[height - 1][x] # Null)
    => isGameOver

\* C9, amended: after every step() that runs a physics pass, if a grain that was
\* due to move in the pass is still in its cell of the top row after the pass, the
\* game-over flag is true.
C9_TopRowStuckEndsGame ==
  (lastOp = "step" /\ stepInfo.physics /\ StuckAtTop) => isGameOver

\* a physics pass has left a due grain in the top row, on a grid whose top row is not full
C9_Witness ==
  /\ lastOp = "step"
  /\ stepInfo.physics
  /\ StuckAtTop
  /\ ~stepInfo.topFullAtStart
  /\ isGameOver

\* C10: startTetrominoSpawn never writes a cell outside [0,width) x [0,height):
\* the cells it changes and the keys it tags are positions of the grid; it returns
\* false and changes no state when a piece is still falling or spawning or when
\* the shape is wider than the grid.
C10_SpawnContainment ==
  [][lastOp' = "startTetrominoSpawn" =>
       /\ DOMAIN grid' = Ys(height) /\ \A y \in Ys(height) : DOMAIN grid'[y] = Xs(width)
       /\ \A k \in Range(fallingPieceCells') : isValidPosition(k[1], k[2])
       /\ (isSpawningTetromino \/ ShapeWidth(arg'[1]) > width) =>
            /\ ret' = FALSE
            /\ grid' = grid
            /\ fallingPieceCells' = fallingPieceCells
            /\ canSpawnNewPiece' = canSpawnNewPiece]_vars

\* a spawn has been refused while the piece of an earlier one, written only where
\* it was inside the grid, is still falling
C10_Witness ==
  /\ lastOp = "startTetrominoSpawn"
  /\ ret = FALSE
  /\ isSpawningTetromino
  /\ Len(fallingPieceCells) = width * height
  /\ \A k \in Range(fallingPieceCells) : grid[k[2]][k[1]].speed = SPAWNING_GRAIN_SPEED

\* the grid cells covered by the shape of the piece drawn at startX: block-row r
\* of the shape lies at rows height - rows*5 + r*5 .. + 4
ShapeCells(type, startX) ==
  LET shape == TETROMINO_SHAPES(type)
      rows == Len(shape)
      cols == Len(shape[1])
      B == TETROMINO_BLOCK_SIZE
      base == height - rows * B
  IN  {p \in Xs(width) \X Ys(height) :
         /\ p[1] >= startX /\ p[1] < startX + cols * B
         /\ p[2] >= base
         /\ shape[((p[2] - base) \div B) + 1][((p[1] - startX) \div B) + 1] = 1}

SideAndBelow(p) == {<<p[1] - 1, p[2]>>, <<p[1] + 1, p[2]>>, <<p[1], p[2] - 1>>}

\* some cell of the set F is on the floor or next to an occupied cell outside F
TouchesPlaced(g, F) ==
  \E p \in F : p[2] = 0 \/ \E q \in SideAndBelow(p) : q \in Occupied(g) /\ q \notin F

\* C12: after every step() that runs physics while a piece is falling, the
\* falling-piece set is cleared and a new spawn is allowed exactly when, on the
\* grid after the physics pass, some falling cell is at y = 0 or has a left,
\* right or below neighbour that is occupied and is not a falling-piece cell;
\* otherwise the set is the one the physics pass left and spawning stays
\* forbidden.
C12_SettleExactlyOnContact ==
  [][(lastOp' = "step" /\ stepInfo'.physics /\ fallingPieceCells # <<>>
        /\ ~canSpawnNewPiece)
       => IF TouchesPlaced(grid', stepInfo'.falling)
          THEN fallingPieceCells' = <<>> /\ canSpawnNewPiece'
          ELSE /\ Range(fallingPieceCells') = stepInfo'.falling
               /\ ~canSpawnNewPiece']_vars

\* a piece that settled on placed sand with none of its cells on the floor
C12_Witness ==
  /\ lastOp = "step" /\ stepInfo.physics
  /\ stepInfo.falling # {}
  /\ \A p \in stepInfo.falling : p[2] > 0
  /\ fallingPieceCells = <<>> /\ canSpawnNewPiece

\* the colour held at a position of a grid, 0 for an empty or outside cell
ColorAt(g, p) ==
  IF p \in Xs(width) \X Ys(height) /\ g[p[2]][p[1]] # Null THEN g[p[2]][p[1]].color ELSE 0

Below(p) == <<p[1], p[2] - 1>>
Above(p) == <<p[1], p[2] + 1>>

\* the grid after is the grid m with the cells of F moved one row down and
\* every cell that is neither left nor entered by a cell of F untouched
MovedOneRowDown(m, after, F) ==
  \A p \in Xs(width) \X Ys(height) :
    IF Above(p) \in F THEN ColorAt(after, p) = ColorAt(m, Above(p))
    ELSE IF p \in F THEN after[p[2]][p[1]] = Null
    ELSE after[p[2]][p[1]] = m[p[2]][p[1]]

\* some cell of F is on the floor or directly above an occupied cell outside F
RestsOnPlaced(g, F) ==
  \E p \in F : p[2] = 0 \/ (Below(p) \in Occupied(g) /\ Below(p) \notin F)

\* what softDrop() did to the engine m its forced step() left, F being the
\* falling-piece cells of m
SoftDropOutcome(m, F) ==
  /\ ret' => /\ MovedOneRowDown(m.grid, grid', F)
             /\ Range(fallingPieceCells') = {Below(p) : p \in F}
  /\ ~ret' => grid' = m.grid
  /\ RestsOnPlaced(m.grid, F)
       => ~ret' /\ fallingPieceCells' = <<>> /\ canSpawnNewPiece'

\* C13 (as claimed): softDrop(), after its forced step(), either moves every
\* cell of the falling-piece set one row down and changes no other cell
\* (returns true) or moves no cell; when some cell of the set is at y = 0 or
\* has a non-piece occupied cell directly below, no cell moves, the set is
\* cleared, spawning is allowed and false is returned.
C13_SoftDropAtomic ==
  [][lastOp' = "softDrop"
       => SoftDropOutcome(StepOf(Current).e, Range(StepOf(Current).e.fallingPieceCells))]_vars

\* the highest row of column x that holds a grain outside F, -1 when there is none
HighestPlaced(g, F, x) ==
  LET ys == {y \in Ys(height) : g[y][x] # Null /\ <<x, y>> \notin F}
  IN  IF ys = {} THEN -1 ELSE CHOOSE y \in ys : \A z \in ys : z <= y

\* column x of the grid after holds the n grains of F of that column stacked
\* directly above the highest grain outside F, and the grains outside F as in g
StackedInColumn(g, after, F, x) ==
  LET held == {p \in F : p[1] = x /\ g[p[2]][p[1]] # Null}
      n == Cardinality(held)
      base == HighestPlaced(g, F, x)
  IN  /\ base + n < height
      /\ \A y \in Ys(height) :
           IF y > base /\ y <= base + n
           THEN ColorAt(after, <<x, y>>) \in {ColorAt(g, p) : p \in held}
           ELSE IF <<x, y>> \in F THEN after[y][x] = Null
           ELSE after[y][x] = g[y][x]

\* what instantDrop() did to the engine m its forced step() left
InstantDropOutcome(m, F) ==
  IF F # {}
  THEN /\ \A x \in Xs(width) : StackedInColumn(m.grid, grid', F, x)
       /\ fallingPieceCells' = <<>> /\ canSpawnNewPiece' /\ ret'
  ELSE ~ret'

\* C14 (as claimed): instantDrop() with a falling piece present after its
\* forced step() removes every falling cell and re-places it in its own column,
\* the cells of a column stacked contiguously directly above the column's
\* highest occupied non-piece cell (from y = 0 in an empty column); afterwards
\* the falling-piece set is empty, a spawn is allowed and true is returned;
\* with no falling piece it returns false.
C14_InstantDropStacks ==
  [][lastOp' = "instantDrop"
       => InstantDropOutcome(StepOf(Current).e,
                             Range(StepOf(Current).e.fallingPieceCells))]_vars

\* C15 (as claimed): when stacking the falling cells in instantDrop() would
\* need a cell at y >= height in some column, the game-over flag is true after
\* instantDrop().
C15_OverflowSignalsGameOver ==
  [][(lastOp' = "instantDrop"
        /\ \E x \in Xs(width) :
             LET m == StepOf(Current).e
                 F == Range(m.fallingPieceCells)
             IN  HighestPlaced(m.grid, F, x)
                   + Cardinality({p \in F : p[1] = x /\ m.grid[p[2]][p[1]] # Null})
                   >= height)
       => isGameOver']_vars

\* a position moved by dx columns
Beside(p, dx) == <<p[1] + dx, p[2]>>

\* every cell of F can go dx columns further: the target is inside the grid and
\* holds no material other than the piece's
ShiftIsFree(g, F, dx) ==
  \A p \in F :
    /\ Beside(p, dx) \in Xs(width) \X Ys(height)
    /\ (Beside(p, dx) \in Occupied(g) => Beside(p, dx) \in F)

\* C16: the horizontal shift translates all falling-piece cells by exactly one
\* column in the given direction, the falling-piece set following them and no
\* other cell changing, when there is a piece and every target cell is in
\* bounds and not occupied by non-piece material (it reports a move);
\* otherwise it changes nothing and reports no move.
C16_ShiftAllOrNothing ==
  [][lastOp' = "shiftActiveTetromino"
       => LET dx == IF arg'[1] = "left" THEN -1 ELSE 1
              F == Range(fallingPieceCells)
          IN  IF F # {} /\ ShiftIsFree(grid, F, dx)
              THEN /\ ret'
                   /\ Range(fallingPieceCells') = {Beside(p, dx) : p \in F}
                   /\ \A p \in Xs(width) \X Ys(height) :
                        grid'[p[2]][p[1]] =
                          IF Beside(p, -dx) \in F THEN grid[p[2]][p[1] - dx]
                          ELSE IF p \in F THEN Null
                          ELSE grid[p[2]][p[1]]
              ELSE /\ ~ret'
                   /\ UNCHANGED engine]_vars

\* a shift to the right refused although every target cell is inside the grid:
\* a grain that is not the piece's is in the way
C16_Witness ==
  /\ lastOp = "shiftActiveTetromino" /\ ~ret
  /\ arg[1] = "right"
  /\ fallingPieceCells # <<>>
  /\ \A p \in Range(fallingPieceCells) : Beside(p, 1) \in Xs(width) \X Ys(height)

\* the grid and the components at the moment step() rebuilds the components:
\* the rebuild comes before the physics pass of the same step
GridAtRebuild == updateConnectedComponents(grid, connectedComponents).grid
ComponentsAtRebuild == updateConnectedComponents(grid, connectedComponents).comps

\* the components a cell is a member of
ComponentsHolding(comps, p) == {i \in 1 .. Len(comps) : positionToKey(p[1], p[2]) \in comps[i].cells}

\* C17 (as claimed): after every component rebuild, every occupied grid cell,
\* including a cell with no same-colour neighbour, is a member of exactly one
\* component of getConnectedComponents().
C17_EveryCellInOneComponent ==
  [][(lastOp' = "step" /\ stepInfo'.rebuilt)
       => \A p \in Occupied(GridAtRebuild) :
            Cardinality(ComponentsHolding(ComponentsAtRebuild, p)) = 1]_vars

\* the grid and the resolved colours the rebuild of a step() works on: the
\* countdowns have been processed, the old components resolve the colours
ColorsAtRebuild ==
  ColorMap(GridAtRebuild,
           processEliminationCountdowns(grid, connectedComponents).comps)

\* 8-adjacent positions
Adjacent8(p, q) ==
  /\ p # q
  /\ p[1] - q[1] \in {-1, 0, 1}
  /\ p[2] - q[2] \in {-1, 0, 1}

\* the cells reached from the set S along 8-adjacent occupied cells of colour c
RECURSIVE ChainFrom(_, _, _, _)
ChainFrom(S, g, cm, c) ==
  LET more == {q \in Occupied(g) \ S :
                 cm[q[2]][q[1]] = c /\ \E p \in S : Adjacent8(p, q)}
  IN  IF more = {} THEN S ELSE ChainFrom(S \cup more, g, cm, c)

\* p and q are linked by a chain of 8-adjacent occupied cells of one resolved colour
Linked(g, cm, p, q) == q \in ChainFrom({p}, g, cm, cm[p[2]][p[1]])

\* C18: after every rebuild, two occupied cells are in the same component
\* exactly when they are linked by a chain of 8-adjacent (orthogonal or
\* diagonal) occupied cells of the same resolved original colour; a component
\* that reaches from x = 0 to x = width-1 is scheduled for elimination.
C18_ComponentsAreEightConnected ==
  [][(lastOp' = "step" /\ stepInfo'.rebuilt)
       => /\ \A p, q \in Occupied(GridAtRebuild) :
               p # q =>
                 ((ComponentsHolding(ComponentsAtRebuild, p)
                     \cap ComponentsHolding(ComponentsAtRebuild, q) # {})
                  <=> Linked(GridAtRebuild, ColorsAtRebuild, p, q))
          /\ \A p, q \in Occupied(GridAtRebuild) :
               (p # q /\ p[1] = 0 /\ q[1] = width - 1
                  /\ Linked(GridAtRebuild, ColorsAtRebuild, p, q))
               => \E i \in ComponentsHolding(ComponentsAtRebuild, p) :
                    /\ ComponentsAtRebuild[i].eliminationCountdown >= 0
                    /\ q \in ComponentsAtRebuild[i].cells]_vars

\* a scheduled component whose cells touch only diagonally, from wall to wall
C18_Witness ==
  /\ lastOp = "step" /\ stepInfo.rebuilt
  /\ width = 3
  /\ \E i \in 1 .. Len(connectedComponents) :
       /\ connectedComponents[i].cells = {<<0, 0>>, <<1, 1>>, <<2, 0>>}
       /\ connectedComponents[i].eliminationCountdown >= 0

\* no cell of the grid is white
NoWhite(g) == \A p \in Occupied(g) : g[p[2]][p[1]].color # WHITE_COLOR

\* C19 (as claimed): after every rebuild on a grid with no white cells, after
\* any sequence of setCell and step operations, every member cell of every
\* component holds a grid value equal to the component's originalColor.
C19_ComponentsHoldTheirColor ==
  [][(lastOp' = "step" /\ stepInfo'.rebuilt /\ NoWhite(GridAtRebuild))
       => \A i \in 1 .. Len(ComponentsAtRebuild) :
            \A c \in ComponentsAtRebuild[i].cells :
              GridAtRebuild[keyToPosition(c).y][keyToPosition(c).x].color
                = ComponentsAtRebuild[i].originalColor]_vars

\* C20: in every reachable state every component has eliminationCountdown -1
\* or in 0..19, every component with countdown >= 0 has touchesLeftWall and
\* touchesRightWall true, and right after a rebuild every component that
\* touches both walls has countdown 19 and isTimeStopped() is true.
C20_CountdownRange ==
  /\ \A i \in 1 .. Len(connectedComponents) :
       /\ connectedComponents[i].eliminationCountdown
            \in {-1} \cup (0 .. (ELIMINATION_TICKS - 1))
       /\ connectedComponents[i].eliminationCountdown >= 0
            => /\ connectedComponents[i].touchesLeftWall
               /\ connectedComponents[i].touchesRightWall
  /\ (stepInfo.called /\ stepInfo.rebuilt)
       => \A i \in 1 .. Len(connectedComponents) :
            (connectedComponents[i].touchesLeftWall
               /\ connectedComponents[i].touchesRightWall)
            => /\ connectedComponents[i].eliminationCountdown = ELIMINATION_TICKS - 1
               /\ hasActiveEliminations

\* a rebuild that scheduled a wall-to-wall component next to a component that
\* touches one wall only
C20_Witness ==
  /\ stepInfo.called /\ stepInfo.rebuilt
  /\ hasActiveEliminations
  /\ \E i \in 1 .. Len(connectedComponents) :
       connectedComponents[i].eliminationCountdown = ELIMINATION_TICKS - 1
  /\ \E i \in 1 .. Len(connectedComponents) :
       /\ connectedComponents[i].eliminationCountdown = -1
       /\ connectedComponents[i].touchesLeftWall

\* C21 (as claimed): step() on an empty grid with no active piece returns
\* false and leaves the grid empty, however often it is called.
C21_StepOnEmptyGrid ==
  [][(lastOp' = "step" /\ Occupied(grid) = {} /\ fallingPieceCells = <<>>)
       => (~ret' /\ Occupied(grid') = {})]_vars

\* C21 (amended): step() on an empty grid with no active piece leaves the grid
\* empty, and returns false unless a component whose cells have been erased
\* still has its countdown running (and the game is not over), in which case
\* it returns true.
C21_StepOnEmptyGridWhenIdle ==
  [][(lastOp' = "step" /\ Occupied(grid) = {} /\ fallingPieceCells = <<>>)
       => /\ Occupied(grid') = {}
          /\ ret' <=> (~isGameOver /\ Blinking(connectedComponents))]_vars

\* a step() that went through the rebuild and the physics pass on a grid that
\* had been written to and emptied again
C21_Witness ==
  /\ lastOp = "step" /\ ~ret
  /\ stepInfo.physics
  /\ Occupied(grid) = {}
  /\ edits > 0

\* the positions around and inside the grid, one ring beyond each border
Probes == ((-1) .. width) \X ((-1) .. height)
InGrid(p) == p[1] \in 0 .. (width - 1) /\ p[2] \in 0 .. (height - 1)

\* C22: getCell is 0 at every out-of-range position; setCell with an
\* out-of-range position or a value outside 0..6 returns false and leaves every
\* cell as it was; setCell with valid arguments returns true, makes getCell at
\* the position equal to the value and changes no other cell.
C22_SetCellValidates ==
  [][lastOp' = "setCell" =>
       LET p == <<arg'[1], arg'[2]>>
           v == arg'[3]
       IN  /\ \A q \in Probes : ~InGrid(q) => getCellOf(grid', q[1], q[2]) = 0
           /\ IF InGrid(p) /\ v \in 0 .. 6
              THEN /\ ret'
                   /\ getCellOf(grid', p[1], p[2]) = v
                   /\ \A q \in Probes \ {p} :
                        getCellOf(grid', q[1], q[2]) = getCellOf(grid, q[1], q[2])
              ELSE /\ ~ret'
                   /\ \A q \in Probes :
                        getCellOf(grid', q[1], q[2]) = getCellOf(grid, q[1], q[2])]_vars

\* an accepted setCell of colour 2 on a grid that holds another cell of colour 1
C22_Witness ==
  /\ lastOp = "setCell" /\ ret
  /\ arg[3] = 2
  /\ getCellOf(grid, arg[1], arg[2]) = 2
  /\ \E q \in Occupied(grid) \ {<<arg[1], arg[2]>>} : getCellOf(grid, q[1], q[2]) = 1

\* the cells of the rectangle [x, x+w) x [y, y+h)
InRect(q, x, y, w, h) == q[1] >= x /\ q[1] < x + w /\ q[2] >= y /\ q[2] < y + h

\* C23: fillRect with a valid value sets exactly the cells of the rectangle
\* that lie inside the grid to the value and leaves every other cell as it
\* was, for any rectangle (partly or wholly outside, empty or of negative
\* size); with an invalid value it changes nothing.
C23_FillRectClips ==
  [][lastOp' = "fillRect" =>
       LET x == arg'[1]
           y == arg'[2]
           w == arg'[3]
           h == arg'[4]
           v == arg'[5]
       IN  \A q \in Probes :
             getCellOf(grid', q[1], q[2]) =
               IF v \in 0 .. 6 /\ InGrid(q) /\ InRect(q, x, y, w, h)
               THEN v
               ELSE getCellOf(grid, q[1], q[2])]_vars

\* a fillRect that starts outside the grid, erases the part of it inside the
\* grid and leaves an occupied cell outside the rectangle
C23_Witness ==
  /\ lastOp = "fillRect"
  /\ arg[1] < 0 /\ arg[5] = 0
  /\ \E q \in Probes : InGrid(q) /\ InRect(q, arg[1], arg[2], arg[3], arg[4])
  /\ \E q \in Occupied(grid) : ~InRect(q, arg[1], arg[2], arg[3], arg[4])

\* C24: after clear() the engine is in its initial state (every cell empty, no
\* components, time not stopped, not game over, no falling-piece cells,
\* spawning allowed), so a following startTetrominoSpawn of a piece that fits
\* the grid width is accepted and a following step() returns false and leaves
\* the grid empty.
C24_ClearYieldsInitialState ==
  lastOp = "clear" =>
    /\ Current = Engine(createEmptyGrid(width, height), <<>>, FALSE, FALSE, <<>>, TRUE)
    /\ \A q \in Probes : getCellOf(grid, q[1], q[2]) = 0
    /\ \A type \in PieceTypes : \A startX \in StartXs(type) :
         startTetrominoSpawnOf(Current, type, 1, startX).ret = (MaxStartX(type) >= 0)
    /\ ~StepOf(Current).ret
    /\ StepOf(Current).e.grid = createEmptyGrid(width, height)

\* clear() called after a piece had been spawned and a cell had been written
C24_Witness ==
  /\ lastOp = "clear"
  /\ spawns > 0
  /\ edits > 0

\* the positions whose getCell value differs between two grids
Changed(g, h) == {q \in Xs(width) \X Ys(height) : getCellOf(g, q[1], q[2]) # getCellOf(h, q[1], q[2])}

\* C26: step() returns true in every step in which a cell moved, cells were
\* eliminated or a blink countdown advanced; so whenever step() returns false,
\* getCell is the same before and after the step at every position.
C26_FalseMeansUnchanged ==
  [][lastOp' = "step" =>
       /\ Changed(grid, grid') # {} => ret'
       /\ stepInfo'.anyMovement => ret'
       /\ stepInfo'.eliminated => ret'
       /\ (Blinking(connectedComponents) /\ ~isGameOver) => ret'
       /\ ~ret' => \A q \in Probes : getCellOf(grid', q[1], q[2]) = getCellOf(grid, q[1], q[2])]_vars

\* a step() that ran the physics pass on a grid holding sand and returned false
C26_Witness ==
  /\ lastOp = "step" /\ ~ret
  /\ stepInfo.physics
  /\ Occupied(grid) # {}

\* C27: white (6) is a display value of a running countdown only: as long as 6
\* is not written through setCell/fillRect, in every state in which no
\* component has a running countdown no cell of the grid holds the value 6.
C27_WhiteOnlyWhileBlinking ==
  ~Blinking(connectedComponents) =>
    \A q \in Xs(width) \X Ys(height) : getCellOf(grid, q[1], q[2]) # 6

\* the colours held by the cells of a grid
RawColors(g) == [y \in Ys(height) |-> [x \in Xs(width) |-> g[y][x].color]]

\* some chain of 8-adjacent cells of one colour reaches from wall to wall
Bridged(g, cm) ==
  \E p, q \in Occupied(g) :
    p # q /\ p[1] = 0 /\ q[1] = width - 1 /\ Linked(g, cm, p, q)

\* no grain of the grid h has moved or aged since g: physics did not run
Still(g, h) ==
  \A q \in Occupied(h) :
    /\ q \in Occupied(g)
    /\ h[q[2]][q[1]].speed = g[q[2]][q[1]].speed
    /\ h[q[2]][q[1]].ticks = g[q[2]][q[1]].ticks

\* C28: within one step() the countdowns and the bridge detection work on the
\* grid as it was before the step and come before physics, the settle check
\* and the game-over check work on the grid after physics. A step() that
\* schedules or advances a countdown performs no physics; a step() that runs
\* physics schedules nothing, and a wall-to-wall bridge its physics created is
\* scheduled by the next step().
C28_StepOrder ==
  [][(lastOp' = "step" /\ ~stepInfo'.gated) =>
       /\ Blinking(connectedComponents) => (~stepInfo'.physics /\ Still(grid, grid'))
       /\ Blinking(connectedComponents') => (~stepInfo'.physics /\ Still(grid, grid'))
       /\ stepInfo'.physics =>
            /\ \A i \in 1 .. Len(connectedComponents') :
                 /\ connectedComponents'[i].eliminationCountdown = -1
                 /\ connectedComponents'[i].cells \subseteq Occupied(grid)
            /\ (~canSpawnNewPiece /\ canSpawnNewPiece')
                 => TouchesPlaced(grid', stepInfo'.falling)
            /\ isGameOver' => \E x \in Xs(width) : grid'[height - 1][x] # Null
       /\ ~stepInfo'.physics => ~isGameOver'
       /\ (lastOp = "step" /\ stepInfo.physics /\ stepInfo.anyMovement
             /\ Bridged(grid, RawColors(grid)))
            => (Blinking(connectedComponents') /\ stepInfo'.rebuilt /\ ~stepInfo'.physics)]_vars

\* a step() whose physics pass has moved sand into a wall-to-wall chain of one
\* colour and has scheduled nothing
C28_Witness ==
  /\ lastOp = "step" /\ stepInfo.physics /\ stepInfo.anyMovement
  /\ ~isGameOver
  /\ Bridged(grid, RawColors(grid))
  /\ ~Blinking(connectedComponents)

\* the component d is the component c one tick later: same cells, wall flags
\* and original colour, the countdown one lower when it is running
OneTickLater(c, d) ==
  /\ d.cells = c.cells
  /\ d.touchesLeftWall = c.touchesLeftWall
  /\ d.touchesRightWall = c.touchesRightWall
  /\ d.originalColor = c.originalColor
  /\ d.eliminationCountdown =
       IF c.eliminationCountdown >= 0 THEN c.eliminationCountdown - 1 ELSE -1

\* the grid h differs from g at most in the colour shown by cells of components
\* whose countdown is running, which is the component's colour or white
OnlyDisplayChanged(g, h, comps) ==
  \A q \in Xs(width) \X Ys(height) :
    \/ h[q[2]][q[1]] = g[q[2]][q[1]]
    \/ /\ g[q[2]][q[1]] # Null
       /\ h[q[2]][q[1]] = [g[q[2]][q[1]] EXCEPT !.color = h[q[2]][q[1]].color]
       /\ \E i \in 1 .. Len(comps) :
            /\ comps[i].eliminationCountdown >= 0
            /\ q \in comps[i].cells
            /\ h[q[2]][q[1]].color \in {comps[i].originalColor, WHITE_COLOR}

\* C29: in a step() that starts with a running countdown and eliminates
\* nothing, every component keeps its cell set, wall flags and original colour
\* and only the countdown and the colour shown change; in a step() that
\* eliminates, the components are rebuilt from the grid in that step, and every
\* remaining region that touches both walls is scheduled with countdown 19 in
\* that step.
C29_FrozenUntilElimination ==
  [][(lastOp' = "step" /\ ~stepInfo'.gated /\ Blinking(connectedComponents)) =>
       IF ~stepInfo'.eliminated
       THEN /\ ~stepInfo'.rebuilt
            /\ Len(connectedComponents') = Len(connectedComponents)
            /\ \A i \in 1 .. Len(connectedComponents) :
                 OneTickLater(connectedComponents[i], connectedComponents'[i])
            /\ OnlyDisplayChanged(grid, grid', connectedComponents)
       ELSE /\ stepInfo'.rebuilt
            /\ \A i \in 1 .. Len(connectedComponents') :
                 /\ connectedComponents'[i].cells \subseteq Occupied(grid')
                 /\ connectedComponents'[i].eliminationCountdown =
                      IF /\ \E c \in connectedComponents'[i].cells : c[1] = 0
                         /\ \E c \in connectedComponents'[i].cells : c[1] = width - 1
                      THEN ELIMINATION_TICKS - 1 ELSE -1
            /\ \A p, q \in Occupied(grid') :
                 (p # q /\ p[1] = 0 /\ q[1] = width - 1
                    /\ Linked(grid', ColorsAtRebuild, p, q))
                 => \E i \in 1 .. Len(connectedComponents') :
                      /\ {p, q} \subseteq connectedComponents'[i].cells
                      /\ connectedComponents'[i].eliminationCountdown = 19]_vars

\* a step() that eliminated a component and scheduled what remained of a
\* dropped piece, which lies from wall to wall
C29_Witness ==
  /\ lastOp = "step" /\ stepInfo.eliminated /\ stepInfo.rebuilt
  /\ \E i \in 1 .. Len(connectedComponents) :
       /\ connectedComponents[i].eliminationCountdown = 19
       /\ \E c \in connectedComponents[i].cells : c[1] = 0
       /\ \E c \in connectedComponents[i].cells : c[1] = width - 1

\* C30 (as claimed): after the physics pass of a step() the falling-piece set
\* is exactly the set of new positions of the grains that were tagged as
\* falling before the step: it has the size it had, every tagged position
\* holds a grain, of the colour the piece's grain had, and no grain that was
\* not tagged becomes tagged.
C30_FallingSetFollowsGrains ==
  [][(lastOp' = "step" /\ stepInfo'.physics) =>
       LET F == Range(fallingPieceCells)
           after == stepInfo'.falling
           moves == stepInfo'.log
       IN  /\ after = {l.to : l \in {k \in moves : k.from \in F}}
           /\ Cardinality(after) = Cardinality(F)
           /\ \A l \in moves :
                IF l.from \in F
                THEN /\ grid'[l.to[2]][l.to[1]] # Null
                     /\ grid'[l.to[2]][l.to[1]].color = grid[l.from[2]][l.from[1]].color
                ELSE l.to \notin after]_vars

\* two engines hold the same cells, components (cell sets, colours, wall
\* flags, countdowns), falling-piece set, spawn state and flags
SameState(a, b) ==
  /\ a.grid = b.grid
  /\ Len(a.connectedComponents) = Len(b.connectedComponents)
  /\ \A k \in 1 .. Len(a.connectedComponents) :
       /\ a.connectedComponents[k].cells = b.connectedComponents[k].cells
       /\ a.connectedComponents[k].originalColor = b.connectedComponents[k].originalColor
       /\ a.connectedComponents[k].touchesLeftWall = b.connectedComponents[k].touchesLeftWall
       /\ a.connectedComponents[k].touchesRightWall = b.connectedComponents[k].touchesRightWall
       /\ a.connectedComponents[k].eliminationCountdown
            = b.connectedComponents[k].eliminationCountdown
  /\ Range(a.fallingPieceCells) = Range(b.fallingPieceCells)
  /\ a.canSpawnNewPiece = b.canSpawnNewPiece
  /\ a.hasActiveEliminations = b.hasActiveEliminations
  /\ a.isGameOver = b.isGameOver

ColumnRun(g, x, y0, k) ==
  /\ Occupied(g) = {<<x, y>> : y \in y0 .. (y0 + k - 1)}
  /\ \A p \in Occupied(g) :
       g[p[2]][p[1]].speed = BASE_GRAIN_SPEED /\ g[p[2]][p[1]].ticks = BASE_GRAIN_SPEED

\* C31: on a grid whose only occupied cells are a vertical run of k base-speed
\* cells in one column with the lowest at y > 0, a step() that runs physics
\* moves every cell of the run down by exactly one row: the run is contiguous
\* one row lower, each cell with the colour of the cell that was above it.
C31_ChainedSettling ==
  [][(lastOp' = "step" /\ stepInfo'.physics) =>
       \A x \in Xs(width), y0 \in 1 .. (height - 1), k \in 1 .. height :
         (y0 + k <= height /\ ColumnRun(grid, x, y0, k))
           => /\ Occupied(grid') = {<<x, y>> : y \in (y0 - 1) .. (y0 + k - 2)}
              /\ \A y \in y0 .. (y0 + k - 1) :
                   grid'[y - 1][x].color = grid[y][x].color]_vars

\* a run of three cells that a step() has moved from rows 1..3 to rows 0..2
C31_Witness ==
  /\ lastOp = "step" /\ stepInfo.physics /\ stepInfo.anyMovement
  /\ Occupied(grid) = {<<0, 0>>, <<0, 1>>, <<0, 2>>}
  /\ \A l \in stepInfo.log : l.to = <<l.from[1], l.from[2] - 1>>
  /\ Cardinality(stepInfo.log) = 3

\* C32: after each step(), isTimeStopped() is true if and only if at least one
\* component of getConnectedComponents() has eliminationCountdown >= 0; in
\* particular it is false right after the step that eliminated the last
\* blinking component.
C32_TimeStoppedIffCountdown ==
  lastOp = "step" => (hasActiveEliminations <=> Blinking(connectedComponents))

Counting(comps) == {i \in 1 .. Len(comps) : comps[i].eliminationCountdown >= 0}

\* C33: in every reachable state all components with eliminationCountdown >= 0
\* have the same countdown value, so all bridging components blink in phase and
\* are eliminated in the same step: after a step that eliminated a component,
\* every countdown is either not running or freshly scheduled.
C33_CountdownsInPhase ==
  /\ \A i, j \in Counting(connectedComponents) :
       connectedComponents[i].eliminationCountdown
         = connectedComponents[j].eliminationCountdown
  /\ (lastOp = "step" /\ stepInfo.eliminated) =>
       \A i \in Counting(connectedComponents) :
         connectedComponents[i].eliminationCountdown = ELIMINATION_TICKS - 1

C33_Witness ==
  /\ lastOp = "step"
  /\ Cardinality(Counting(connectedComponents)) >= 2
  /\ \E i \in Counting(connectedComponents) :
       connectedComponents[i].eliminationCountdown < ELIMINATION_TICKS - 1

\* C34: after each step(), for every component with an active countdown, the
\* value returned by getComponentDisplayColor(component) equals the value
\* getCell returns for every member cell of that component.
C34_DisplayColorMatchesCells ==
  lastOp = "step" =>
    \A i \in Counting(connectedComponents) :
      \A p \in connectedComponents[i].cells :
        getCell(p[1], p[2]) = getComponentDisplayColor(connectedComponents[i])

\* C36: after every operation among step, startTetrominoSpawn, softDrop and
\* instantDrop, every position in the falling-piece set is inside the grid and
\* holds a non-empty cell (no stale tags, also after the piece's cells were
\* cleared by an elimination).
C36_NoStaleFallingTags ==
  lastOp \in {"step", "startTetrominoSpawn", "softDrop", "instantDrop"} =>
    \A p \in Range(fallingPieceCells) :
      isValidPosition(p[1], p[2]) /\ grid[p[2]][p[1]] # Null

\* step() is a function of the engine state: where it returns the state it was
\* given, every later step() does so too
AtRest == \E s \in {StepOf(Current)} : s.e = Current

\* C35: after every accepted startTetrominoSpawn, if step() keeps being called
\* and game-over is not reached, a state is eventually reached in which
\* spawning is allowed again, including when the falling piece becomes part of
\* a wall-to-wall component and is eliminated while still falling. Stated so
\* that a finite run refutes it: spawning is refused only after an accepted
\* spawn, so no reachable state that refuses spawning and is not game over is
\* left unchanged by step().
C35_NoSpawnDeadlock ==
  (~canSpawnNewPiece /\ ~isGameOver) => ~AtRest

\* C38: while time is stopped (some component has an active countdown),
\* softDrop() and instantDrop() do not move any cell: apart from the
\* blink/countdown bookkeeping of their forced step(), cell positions, the
\* falling-piece set and the spawn permission are unchanged.
C38_DropsFrozenWhileTimeStopped ==
  [][(lastOp' \in {"softDrop", "instantDrop"} /\ Blinking(connectedComponents)) =>
       \E s \in {StepOf(Current)} :
         /\ Occupied(grid') = Occupied(s.e.grid)
         /\ fallingPieceCells' = s.e.fallingPieceCells
         /\ canSpawnNewPiece' = s.e.canSpawnNewPiece]_vars

\* C39: while the game-over flag is true, softDrop() and instantDrop() return
\* false and leave the grid, the falling-piece set and the spawn permission
\* unchanged.
C39_DropsInertWhenGameOver ==
  [][(lastOp' \in {"softDrop", "instantDrop"} /\ isGameOver) =>
       /\ ret' = FALSE
       /\ grid' = grid
       /\ fallingPieceCells' = fallingPieceCells
       /\ canSpawnNewPiece' = canSpawnNewPiece]_vars

\* C40: the piece-moving part of softDrop() and instantDrop() (after their
\* forced step()) conserves sand: the number of occupied cells in the grid is
\* the same before and after it, for every reachable state including ones where
\* columns under the piece are filled by setCell.
C40_DropsConserveSand ==
  [][lastOp' \in {"softDrop", "instantDrop"} =>
       \E s \in {StepOf(Current)} :
         Cardinality(Occupied(grid')) = Cardinality(Occupied(s.e.grid))]_vars

\* C37: a false result from step() means the grid is at rest: if step() returns
\* false while the game is not over and no other operation is called, every
\* following step() also returns false and changes no cell (also for a freshly
\* spawned piece whose grains have the slower spawning speed).
C37_FalseMeansAtRest ==
  [][(lastOp = "step" /\ ret = FALSE /\ ~isGameOver /\ lastOp' = "step") =>
       /\ ret' = FALSE
       /\ \A y \in Ys(height), x \in Xs(width) : grid'[y][x].color = grid[y][x].color]_vars

====
